---------------------------- MODULE Spec2Model ----------------------------
(***************************************************************************)
(* A model of the oead codec layer: the Yaz0 group writer and safe         *)
(* decoder, the SARC reader and writer, the BYML binary writer and parser  *)
(* and the AAMP (parameter archive) binary writer and parser.              *)
(* Buffers are sequences of bytes (0..255); offsets are 0-based as in the  *)
(* source, so the byte at offset o of a buffer b is b[o + 1].              *)
(***************************************************************************)
EXTENDS Integers, Sequences, FiniteSets, TLC

VARIABLES
    \* ---- yaz0::Compress / GroupWriter / yaz0::Decompress
    yaz_pc,                 \* "compressing" | "compressed" | "decompressed" | "idle"
    src,                    \* the input bytes the match finder has consumed so far
    m_result,               \* GroupWriter::m_result (header + group stream)
    m_pending_chunks,       \* GroupWriter::m_pending_chunks
    m_group_header,         \* GroupWriter::m_group_header (std::bitset<8> as 0..255)
    m_group_header_offset,  \* GroupWriter::m_group_header_offset
    n_matches,              \* back references reported so far (bounded by MaxMatches)
    n_tokens,               \* tokens reported so far (bounded by MaxTokens)
    yaz_out,                \* what Decompress(m_result) returned
    decoder,                \* a call of Decompress(src) or Decompress(src, dst) on
                            \* any source: the arguments, the locals of the loop,
                            \* the indices read and written, and the outcome
    \* ---- SarcWriter / Sarc
    sarc_pc,                \* "idle" | "building" | "written" | "opened" | "copied"
                            \* | "rewritten" | "reopened"
    m_files,                \* SarcWriter::m_files: <<name, data>> pairs, one per name
    m_endian,               \* SarcWriter::m_endian
    m_mode,                 \* SarcWriter::m_mode
    m_min_alignment,        \* SarcWriter::m_min_alignment
    m_alignment_map,        \* SarcWriter::m_alignment_map
    caller_requirements,    \* what the caller last passed to AddAlignmentRequirement
    write_result,           \* what SarcWriter::Write returned
    sarc,                   \* the Sarc object: its reader's data and its fields
    source,                 \* the Sarc object FromSarc copied from
    got,                    \* what the last Sarc member call returned or threw
    bs,                     \* the binary search of Sarc::GetFile(name): a, b, m
    \* ---- Byml::ToBinary / Byml::FromBinary
    byml_pc,                \* "idle" | "document" | "written" | "parsed" | "node" | "got"
    byml_doc,               \* the document
    byml_args,              \* the arguments of ToBinary: big_endian, version
    byml_binary,            \* what ToBinary returned or threw
    byml_parsed,            \* what FromBinary returned or threw
    byml_getter,            \* the typed getter called on the document
    byml_got,               \* what the getter returned or threw
    \* ---- ParameterIO::ToBinary / ParameterIO::FromBinary
    aamp_pc,                \* "idle" | "archive" | "written" | "parsed"
    aamp_pio,               \* the ParameterIO
    aamp_binary,            \* what ToBinary returned
    aamp_parsed,            \* what FromBinary returned or threw
    \* ---- aamp::NameTable
    name_table,             \* the table: names, owned_names, numbered_names
    callers,                \* per thread, its call on the table: position,
                            \* arguments, candidate, result
    guessed,                \* the <<hash, name>> pairs GetName returned from a guess
    \* ---- CompactOffset
    compact_offset          \* a CompactOffset<T, 4>: T, the argument x of Set,
                            \* raw_value, what Set threw and what Get returned

yazVars == <<yaz_pc, src, m_result, m_pending_chunks, m_group_header,
             m_group_header_offset, n_matches, n_tokens, yaz_out, decoder>>

sarcWriterVars == <<m_files, m_endian, m_mode, m_min_alignment, m_alignment_map,
                    caller_requirements, write_result>>

sarcReaderVars == <<sarc, source, got, bs>>

sarcVars == <<sarc_pc, sarcWriterVars, sarcReaderVars>>

bymlVars == <<byml_pc, byml_doc, byml_args, byml_binary, byml_parsed, byml_getter, byml_got>>

nameTableVars == <<name_table, callers, guessed>>

offsetVars == <<compact_offset>>

aampVars == <<aamp_pc, aamp_pio, aamp_binary, aamp_parsed, nameTableVars, offsetVars>>

vars == <<yazVars, sarcVars, bymlVars, aampVars>>

(***************************************************************************)
(* Fixed-width integers and byte order                                     *)
(***************************************************************************)
U8(x) == x % 256

\* SwapIfNeededInPlace followed by the raw store: the n bytes of an integer
\* in the given byte order (most significant first for Endianness::Big).
ToBytes(v, n, endian) ==
    [i \in 1..n |-> (v \div (256 ^ (IF endian = "Big" THEN n - i ELSE i - 1))) % 256]

Nullopt == -1

\* BinaryReader::Read<T> (Safe): the n-byte integer (n <= 4) at offset, or
\* nullopt when offset + n runs past the end of the data.
Read(data, offset, n, endian) ==
    LET byte(k) == IF k > n THEN 0
                   ELSE data[offset + (IF endian = "Big" THEN n + 1 - k ELSE k)]
    IN IF offset + n > Len(data) THEN Nullopt
       ELSE byte(1) + 256 * (byte(2) + 256 * (byte(3) + 256 * byte(4)))

\* A u32 that may exceed the range of the checker's integers is a pair
\* <<hi, lo>> of its 16-bit halves; the operators below are the u32
\* arithmetic of the source, wrapping modulo 2^32.
Pair32(n) == << n \div 65536, n % 65536 >>

Lt32(x, y) == x[1] < y[1] \/ (x[1] = y[1] /\ x[2] < y[2])

Add32(x, y) ==
    LET lo == x[2] + y[2]
    IN << (x[1] + y[1] + lo \div 65536) % 65536, lo % 65536 >>

Half32(x) == << x[1] \div 2, (x[2] + 65536 * (x[1] % 2)) \div 2 >>

\* s32(x) of a u32 x: the signed integer with the same 32 bits.
S32(x) == IF x[1] >= 32768 THEN (x[1] - 65536) * 65536 + x[2] ELSE x[1] * 65536 + x[2]

\* BinaryWriter::Write<u32> of a pair.
Bytes32(x, endian) ==
    IF endian = "Big" THEN ToBytes(x[1], 2, endian) \o ToBytes(x[2], 2, endian)
    ELSE ToBytes(x[2], 2, endian) \o ToBytes(x[1], 2, endian)

\* BinaryReader::Read<u32> as a pair; the empty tuple is std::nullopt.
Read32(data, offset, endian) ==
    IF offset + 4 > Len(data) THEN << >>
    ELSE IF endian = "Big"
    THEN << Read(data, offset, 2, "Big"), Read(data, offset + 2, 2, "Big") >>
    ELSE << Read(data, offset + 2, 2, "Little"), Read(data, offset, 2, "Little") >>

\* BinaryReader::ReadString: the bytes from offset up to the first NUL or
\* the end of the data (strnlen bounded by the remaining size).
RECURSIVE StrLen(_, _)
StrLen(data, offset) ==
    IF offset >= Len(data) \/ data[offset + 1] = 0 THEN 0
    ELSE 1 + StrLen(data, offset + 1)

ReadString(data, offset) == SubSeq(data, offset + 1, offset + StrLen(data, offset))

\* util::ByteOrderMarkToEndianness
ByteOrderMarkToEndianness(bom) == IF bom = 65534 THEN "Little" ELSE "Big"

\* util::AlignUp(value, size)
AlignUp(value, size) == value + ((size - (value % size)) % size)

\* BinaryWriterBase: the record [buf, off] is m_data and m_offset, both empty
\* and 0 after construction.
Seek(w, offset) == [w EXCEPT !.off = offset]

\* BinaryWriterBase::WriteBytes: resize (zero filling) when the write runs
\* past the end, then copy at the cursor and advance it.
WriteBytes(w, bytes) ==
    LET end == w.off + Len(bytes)
        resized == IF w.off > Len(w.buf)
                   THEN w.buf \o [i \in 1..(w.off - Len(w.buf)) |-> 0]
                   ELSE w.buf
    IN [buf |-> SubSeq(resized, 1, w.off) \o bytes
                    \o SubSeq(resized, end + 1, Len(resized)),
        off |-> end]

WriterAlignUp(w, n) == Seek(w, AlignUp(w.off, n))

RECURSIVE Gcd(_, _)
Gcd(x, y) == IF y = 0 THEN x ELSE Gcd(y, x % y)

\* std::lcm
Lcm(x, y) == IF x = 0 \/ y = 0 THEN 0 ELSE (x \div Gcd(x, y)) * y

(***************************************************************************)
(* Yaz0                                                                    *)
(***************************************************************************)
ChunksPerGroup == 8

MaximumMatchLength == 273

WindowSize == 4096

HeaderSize == 16

\* 'Y', 'a', 'z', '0'
Magic == <<89, 97, 122, 48>>

\* Bounds of the Yaz0 model.
MaxTokens == 9

MaxMatches == 2

\* The literal byte of the input at position p; consecutive positions hold
\* different bytes so that a wrong copy source is visible.
LiteralAt(p) == (65 + 37 * p) % 256

\* The (distance, length) pairs the match finder may report.
MatchTokens ==
    { <<1, 3>>, <<2, 17>>, <<1, 18>>, <<1, 273>>, <<274, 3>>, <<3, 19>> }

\* Compress: the header written before the group writer is constructed.
YazHeader(size, data_alignment) ==
    Magic \o ToBytes(size, 4, "Big") \o ToBytes(data_alignment, 4, "Big") \o <<0, 0, 0, 0>>

\* GroupWriter::WriteMatch
WriteMatchMutNibble(result, distance, length) ==
    IF length < 18
    THEN result \o << U8((length - 3) * 16 + U8(distance \div 256)), U8(distance) >>
    ELSE LET actual_length == IF length < MaximumMatchLength THEN length
                              ELSE MaximumMatchLength
         IN result \o << U8(distance \div 256), U8(distance), U8(actual_length - 18) >>

WriteMatch(result, distance, length) ==
    IF length < 18
    THEN result \o << U8((length - 2) * 16 + U8(distance \div 256)), U8(distance) >>
    ELSE LET actual_length == IF length < MaximumMatchLength THEN length
                              ELSE MaximumMatchLength
         IN result \o << U8(distance \div 256), U8(distance), U8(actual_length - 18) >>

\* std::bitset<8>::set(pos)
BitSet(bits, pos) ==
    IF (bits \div (2 ^ pos)) % 2 = 1 THEN bits ELSE bits + 2 ^ pos

\* The input after the match finder consumed a back reference (dist, length):
\* it only reports a match the input really contains, so the next `length`
\* bytes of the input repeat the bytes `dist` positions before them.
MatchedBytes(s, dist, length) ==
    [i \in 1..(Len(s) + length) |->
        IF i <= Len(s) THEN s[i] ELSE s[Len(s) - dist + 1 + ((i - Len(s) - 1) % dist)]]

\* GroupWriter::HandleZlibMatch(dist, lc), with the trailing group flush.
HandleZlibMatch(dist, lc) ==
    LET written == IF dist = 0 THEN Append(m_result, U8(lc))
                   ELSE WriteMatch(m_result, dist - 1, lc + 3)
        header == IF dist = 0 THEN BitSet(m_group_header, 7 - m_pending_chunks)
                  ELSE m_group_header
        pending == m_pending_chunks + 1
    IN IF pending = ChunksPerGroup
       THEN \* flush the group header, then Reset()
            /\ m_result' = Append([written EXCEPT ![m_group_header_offset + 1] = header], 255)
            /\ m_pending_chunks' = 0
            /\ m_group_header' = 0
            /\ m_group_header_offset' = Len(written)
       ELSE /\ m_result' = written
            /\ m_pending_chunks' = pending
            /\ m_group_header' = header
            /\ m_group_header_offset' = m_group_header_offset

\* The match finder reports a literal.
ZlibLiteral ==
    /\ yaz_pc = "compressing"
    /\ n_tokens < MaxTokens
    /\ HandleZlibMatch(0, LiteralAt(Len(src)))
    /\ src' = Append(src, LiteralAt(Len(src)))
    /\ n_tokens' = n_tokens + 1
    /\ UNCHANGED <<yaz_pc, n_matches, yaz_out, decoder, sarcVars, bymlVars, aampVars>>

\* The match finder reports a back reference into the window.
ZlibMatch ==
    /\ yaz_pc = "compressing"
    /\ n_tokens < MaxTokens
    /\ n_matches < MaxMatches
    /\ \E t \in MatchTokens :
          /\ t[1] <= Len(src)
          /\ t[1] <= WindowSize
          /\ HandleZlibMatch(t[1], t[2] - 3)
          /\ src' = MatchedBytes(src, t[1], t[2])
    /\ n_tokens' = n_tokens + 1
    /\ n_matches' = n_matches + 1
    /\ UNCHANGED <<yaz_pc, yaz_out, decoder, sarcVars, bymlVars, aampVars>>

\* Compress, after zng_compress2 returned: the input size goes to the header
\* (written first in the source; the size is known from the start there) and
\* GroupWriter::Finalise stores the last group header.
Finalise ==
    /\ yaz_pc = "compressing"
    /\ LET sized == [i \in 1..Len(m_result) |->
                        IF i <= HeaderSize THEN YazHeader(Len(src), 0)[i]
                        ELSE m_result[i]]
       IN m_result' = IF m_pending_chunks # 0
                      THEN [sized EXCEPT ![m_group_header_offset + 1] = m_group_header]
                      ELSE sized
    /\ yaz_pc' = "compressed"
    /\ UNCHANGED <<src, m_pending_chunks, m_group_header, m_group_header_offset,
                   n_matches, n_tokens, yaz_out, decoder, sarcVars, bymlVars, aampVars>>

\* The inner copy loop of Decompress, for (i < length) *dst_it++ = base[i]:
\* byte i is read from offset base + i, which for i >= distance is a byte the
\* loop itself wrote, the one at base + (i mod distance).
CopyBytes(dst, base, length) ==
    [i \in 1..(Len(dst) + length) |->
        IF i <= Len(dst) THEN dst[i]
        ELSE dst[base + 1 + ((i - Len(dst) - 1) % (Len(dst) - base))]]

\* Decompress<Safe = true>(src, dst): the loop from reader offset `pos` with
\* `dst` the bytes written so far of `size`.  The result is the record
\* [err, dst]; err is "none", "bad_optional_access" or "invalid_argument".
RECURSIVE DecompressLoop(_, _, _, _, _, _)
DecompressLoop(data, pos, dst, size, group_header, remaining_chunks) ==
    IF Len(dst) >= size THEN [err |-> "none", dst |-> dst]
    ELSE IF remaining_chunks = 0
    THEN IF Read(data, pos, 1, "Big") = Nullopt
         THEN [err |-> "bad_optional_access", dst |-> dst]
         ELSE DecompressLoop(data, pos + 1, dst, size, Read(data, pos, 1, "Big"),
                             ChunksPerGroup)
    ELSE IF (group_header \div 128) % 2 = 1
    THEN IF Read(data, pos, 1, "Big") = Nullopt
         THEN [err |-> "bad_optional_access", dst |-> dst]
         ELSE DecompressLoop(data, pos + 1, Append(dst, Read(data, pos, 1, "Big")), size,
                             U8(group_header * 2), remaining_chunks - 1)
    ELSE LET pair == Read(data, pos, 2, "Big")
             distance == (pair % 4096) + 1
             third == Read(data, pos + 2, 1, "Big")
             long == (pair \div 4096) = 0
             length == (IF long THEN third + 16 ELSE pair \div 4096) + 2
             base == Len(dst) - distance
         IN IF pair = Nullopt \/ (long /\ third = Nullopt)
            THEN [err |-> "bad_optional_access", dst |-> dst]
            ELSE IF base < 0 \/ Len(dst) + length > size
            THEN [err |-> "invalid_argument", dst |-> dst]
            ELSE DecompressLoop(data, IF long THEN pos + 3 ELSE pos + 2,
                                CopyBytes(dst, base, length), size,
                                U8(group_header * 2), remaining_chunks - 1)

\* GetHeader(span): the header (valid), or nullopt (not valid) for a source
\* shorter than the header or a magic other than Yaz0.
GetHeader(data) ==
    IF Len(data) < HeaderSize \/ SubSeq(data, 1, 4) # Magic
    THEN [valid |-> FALSE, uncompressed_size |-> 0, data_alignment |-> 0]
    ELSE [valid |-> TRUE, uncompressed_size |-> Read(data, 4, 4, "Big"),
          data_alignment |-> Read(data, 8, 4, "Big")]

\* std::vector<u8> Decompress(span src)
DecompressVec(data) ==
    IF ~GetHeader(data).valid THEN [err |-> "none", dst |-> <<>>]
    ELSE DecompressLoop(data, HeaderSize, <<>>, GetHeader(data).uncompressed_size, 0, 0)

Decompress ==
    /\ yaz_pc = "compressed"
    /\ yaz_out' = DecompressVec(m_result)
    /\ yaz_pc' = "decompressed"
    /\ UNCHANGED <<src, m_result, m_pending_chunks, m_group_header,
                   m_group_header_offset, n_matches, n_tokens, decoder,
                   sarcVars, bymlVars, aampVars>>

\* ---- Decompress on any source
\* Bounds of the sources: the bytes after the header, and the size of dst.
MaxBody == 5

MaxDst == 5

\* BinaryReader::Read<T, Safe = false> for sizeof(T) = n: no check, the
\* bytes past the end of the span read as 0.
ReaderReadMutUnsafe(data, offset, n) ==
    LET byte(k) == IF offset + k > Len(data) THEN 0 ELSE data[offset + k]
    IN [value |-> IF n = 1 THEN byte(1) ELSE 256 * byte(1) + byte(2),
        read |-> offset..(offset + n - 1)]

\* BinaryReader::Read<T, Safe = true> for sizeof(T) = n, big endian: the
\* value or nullopt, and the indices of the span it read.
ReaderRead(data, offset, n) ==
    IF offset + n > Len(data) THEN [value |-> Nullopt, read |-> {}]
    ELSE [value |-> Read(data, offset, n, "Big"), read |-> offset..(offset + n - 1)]

\* The copy loop of Decompress on dst: for (i < length) *dst_it++ = base[i].
CopyWithin(dst, dst_it, base, length) ==
    [i \in 1..Len(dst) |->
        IF i > dst_it /\ i <= dst_it + length
        THEN dst[base + 1 + ((i - dst_it - 1) % (dst_it - base))]
        ELSE dst[i]]

DecoderIdle ==
    [pc |-> "idle", api |-> "span", src |-> << >>, dst |-> << >>, offset |-> 0,
     dst_it |-> 0, group_header |-> 0, remaining_chunks |-> 0,
     chunk |-> "none", distance |-> 0, length |-> 0, base |-> 0,
     src_read |-> {}, dst_read |-> {}, dst_written |-> << >>, err |-> "none"]

\* Decompress(src): the header check and the allocation of the result, then
\* Decompress<true>(src, result) up to the first test of its loop.
\* Decompress(src, dst): Decompress<true>(src, dst) up to the same point.
DecompressCall ==
    /\ decoder.pc = "called"
    /\ decoder' =
           LET header == GetHeader(decoder.src)
               dst == IF decoder.api = "span" THEN decoder.dst
                      ELSE [i \in 1..header.uncompressed_size |-> 0]
           IN IF decoder.api = "vector" /\ ~header.valid
              THEN [decoder EXCEPT !.pc = "returned", !.dst = << >>]
              ELSE [decoder EXCEPT !.dst = dst, !.offset = HeaderSize,
                                   !.pc = IF Len(dst) > 0 THEN "decoding" ELSE "returned"]
    /\ UNCHANGED <<yaz_pc, src, m_result, m_pending_chunks, m_group_header,
                   m_group_header_offset, n_matches, n_tokens, yaz_out,
                   sarcVars, bymlVars, aampVars>>

\* One iteration of the loop of Decompress<true>, with the test of the loop
\* that follows it.
Chunk(d) ==
    LET Raise(x, what) == [x EXCEPT !.pc = "thrown", !.err = what]
        Value(x, r) == [x EXCEPT !.src_read = @ \cup r.read,
                                 !.offset = @ + Cardinality(r.read)]
        Advance(x) ==
            [x EXCEPT !.group_header = U8(@ * 2), !.remaining_chunks = @ - 1,
                      !.pc = IF x.dst_it < Len(x.dst) THEN "decoding" ELSE "returned"]
        Literal(x, r) ==
            IF r.value = Nullopt THEN Raise(x, "bad_optional_access")
            ELSE Advance([Value(x, r) EXCEPT !.dst[x.dst_it + 1] = r.value,
                                          !.dst_written = Append(@, x.dst_it),
                                          !.dst_it = @ + 1, !.chunk = "literal"])
        Copy(x, distance, length) ==
            LET base == x.dst_it - distance
                y == [x EXCEPT !.chunk = "reference", !.distance = distance,
                               !.length = length, !.base = base]
            IN IF base < 0 \/ x.dst_it + length > Len(x.dst)
               THEN Raise(y, "invalid_argument")
               ELSE Advance([y EXCEPT
                             !.dst = CopyWithin(@, x.dst_it, base, length),
                             !.dst_read = @ \cup base..(base + length - 1),
                             !.dst_written = @ \o [i \in 1..length |-> x.dst_it + i - 1],
                             !.dst_it = @ + length])
        Long(x, pair, r) ==
            IF r.value = Nullopt THEN Raise(x, "bad_optional_access")
            ELSE Copy(Value(x, r), (pair % 4096) + 1, r.value + 16 + 2)
        Reference(x, r) ==
            IF r.value = Nullopt THEN Raise(x, "bad_optional_access")
            ELSE IF r.value \div 4096 # 0
            THEN Copy(Value(x, r), (r.value % 4096) + 1, (r.value \div 4096) + 2)
            ELSE Long(Value(x, r), r.value, ReaderRead(x.src, x.offset + 2, 1))
        Body(x) ==
            IF x.group_header \div 128 = 1
            THEN Literal(x, ReaderRead(x.src, x.offset, 1))
            ELSE Reference(x, ReaderRead(x.src, x.offset, 2))
        Group(x, r) ==
            IF r.value = Nullopt THEN Raise(x, "bad_optional_access")
            ELSE Body([Value(x, r) EXCEPT !.group_header = r.value,
                                          !.remaining_chunks = ChunksPerGroup])
    IN IF d.remaining_chunks = 0 THEN Group(d, ReaderRead(d.src, d.offset, 1))
       ELSE Body(d)

DecodeChunk ==
    /\ decoder.pc = "decoding"
    /\ decoder' = Chunk(decoder)
    /\ UNCHANGED <<yaz_pc, src, m_result, m_pending_chunks, m_group_header,
                   m_group_header_offset, n_matches, n_tokens, yaz_out,
                   sarcVars, bymlVars, aampVars>>

\* The bytes after the header: every sequence of up to MaxBody bytes that
\* are group headers (0x80: a literal, then references; 0xC0: two literals,
\* then references; 0x00 and 0x10: a reference first), halves of a
\* reference (0x10 0x00: 3 bytes from distance 1; 0x80 0x00: 10 bytes;
\* 0x00 0x00 and a third byte: 18 bytes or more; a second byte other than
\* 0: a distance of 17 or more) or literals.
DecoderBodies == UNION { [1..n -> {0, 16, 128, 192}] : n \in 0..MaxBody }

\* A call with its arguments, before anything ran.
DecoderCall(api, data, size) ==
    [DecoderIdle EXCEPT !.pc = "called", !.api = api, !.src = data,
                        !.dst = [i \in 1..size |-> 0]]

\* The calls: Decompress(src, dst) with dst of any size up to MaxDst, on a
\* source with a header or cut off inside it, and Decompress(src) on a
\* source with a header of any such size, with another magic, or cut off.
DecoderInit ==
    /\ yaz_pc = "idle"
    /\ src = << >>
    /\ m_result = << >>
    /\ m_pending_chunks = 0
    /\ m_group_header = 0
    /\ m_group_header_offset = 0
    /\ n_matches = 0
    /\ n_tokens = 0
    /\ yaz_out = [err |-> "none", dst |-> << >>]
    /\ LET cut == { SubSeq(YazHeader(2, 0) \o << 128, 16 >>, 1, n) : n \in {0, 3, 15} }
           other == << 89, 97, 122, 49 >> \o ToBytes(1, 4, "Big") \o [i \in 1..8 |-> 0]
                        \o << 128, 16 >>
       IN \E size \in 0..MaxDst :
              \/ \E api \in {"span", "vector"}, body \in DecoderBodies :
                     decoder = DecoderCall(api, YazHeader(size, 0) \o body,
                                           IF api = "span" THEN size ELSE 0)
              \/ \E data \in cut : decoder = DecoderCall("span", data, size)
              \/ \E data \in cut \cup {other} :
                     size = 0 /\ decoder = DecoderCall("vector", data, 0)

DecoderNext == DecompressCall \/ DecodeChunk

\* Compress up to the construction of the GroupWriter (which calls Reset()).
YazInit ==
    /\ yaz_pc = "compressing"
    /\ src = <<>>
    /\ m_result = Append(YazHeader(0, 0), 255)
    /\ m_pending_chunks = 0
    /\ m_group_header = 0
    /\ m_group_header_offset = HeaderSize
    /\ n_matches = 0
    /\ n_tokens = 0
    /\ yaz_out = [err |-> "none", dst |-> <<>>]
    /\ decoder = DecoderIdle

YazNext == ZlibLiteral \/ ZlibMatch \/ Finalise \/ Decompress

\* C1: decompressing what Compress produced from any token sequence gives
\* back, without error, exactly the bytes the tokens describe.
C1_RoundTrip ==
    yaz_pc = "decompressed" => (yaz_out.err = "none" /\ yaz_out.dst = src)

\* C1 witness: a round trip of an input that needed a second group, a short
\* and a long back reference, one of them further back than 255 bytes.
C1_Witness ==
    /\ yaz_pc = "decompressed"
    /\ yaz_out.dst = src
    /\ n_tokens = MaxTokens
    /\ n_matches = 2
    /\ Len(src) > 274

\* C16: Compress of the empty input returns exactly the 16 bytes of the
\* header, with magic Yaz0 and uncompressed_size 0 and nothing after them,
\* and Decompress of what it returned gives the empty byte string.
C16_EmptyInput ==
    (yaz_pc \in {"compressed", "decompressed"} /\ src = << >>) =>
        /\ m_result = YazHeader(0, 0)
        /\ yaz_pc = "decompressed" => yaz_out = [err |-> "none", dst |-> << >>]

\* C17: the safe decoder reads no index of src at or after src.size() and
\* reads and writes no index of dst outside [0, dst.size()), whatever the
\* source and the size of dst; a decode that returns has written every byte
\* of dst exactly once, in ascending order.
C17_SafeDecoder ==
    /\ \A i \in decoder.src_read : 0 <= i /\ i < Len(decoder.src)
    /\ \A i \in decoder.dst_read : 0 <= i /\ i < Len(decoder.dst)
    /\ \A k \in 1..Len(decoder.dst_written) :
           0 <= decoder.dst_written[k] /\ decoder.dst_written[k] < Len(decoder.dst)
    /\ decoder.pc = "returned" =>
           decoder.dst_written = [i \in 1..Len(decoder.dst) |-> i - 1]

\* Decompress(src, dst) returned after two literals and a back reference
\* that filled the rest of dst, having read the source up to its last byte.
C17_Witness ==
    /\ decoder.pc = "returned"
    /\ decoder.api = "span"
    /\ Len(decoder.dst) = 5
    /\ decoder.chunk = "reference"
    /\ decoder.dst_read = {1, 2, 3}
    /\ Len(decoder.src) - 1 \in decoder.src_read

\* C18: a back reference whose source position, the output position minus
\* the distance, lies before the start of dst, or whose length runs past
\* the end of dst, makes the decode fail with InvalidData.
C18_CopyOutOfBounds ==
    (/\ decoder.chunk = "reference"
     /\ \/ decoder.base < 0
        \/ decoder.base + decoder.distance + decoder.length > Len(decoder.dst))
        => (decoder.pc = "thrown" /\ decoder.err = "InvalidData")

\* C19: Decompress(src) on a source shorter than the header or with a magic
\* other than Yaz0 fails instead of returning bytes; when it returns for a
\* source with a header, it returns header.uncompressed_size bytes.
C19_HeaderValidated ==
    (decoder.api = "vector" /\ decoder.pc \in {"returned", "thrown"}) =>
        IF Len(decoder.src) < HeaderSize \/ SubSeq(decoder.src, 1, 4) # Magic
        THEN decoder.pc = "thrown"
        ELSE decoder.pc = "returned" =>
                 Len(decoder.dst) = Read(decoder.src, 4, 4, "Big")

(***************************************************************************)
(* SARC                                                                    *)
(***************************************************************************)
\* "SARC", "SFAT", "SFNT"
SarcMagic == << 83, 65, 82, 67 >>

SfatMagic == << 83, 70, 65, 84 >>

SfntMagic == << 83, 70, 78, 84 >>

\* sizeof(ResHeader), sizeof(ResFatHeader), sizeof(ResFatEntry),
\* sizeof(ResFntHeader)
ResHeaderSize == 20

ResFatHeaderSize == 12

ResFatEntrySize == 16

ResFntHeaderSize == 8

\* SarcWriter::m_hash_multiplier
DefaultHashMultiplier == 101

\* sarc::HashName, in u32 arithmetic on a pair.
RECURSIVE HashName(_, _)
HashName(multiplier, name) ==
    IF name = << >> THEN << 0, 0 >>
    ELSE LET h == HashName(multiplier, SubSeq(name, 1, Len(name) - 1))
             lo == h[2] * multiplier + name[Len(name)]
         IN << (h[1] * multiplier + lo \div 65536) % 65536, lo % 65536 >>

IsValidAlignment(alignment) == \E k \in 0..30 : alignment = 2 ^ k

\* GetAglEnvAlignmentRequirements: the (ext, alignment) pairs read from
\* data/aglenv_file_info.json, here one entry with its ext and bext
\* ("genv", "bgenv", 8).
GetAglEnvAlignmentRequirements ==
    << << << 103, 101, 110, 118 >>, 8 >>, << << 98, 103, 101, 110, 118 >>, 8 >> >>

\* GetBotwFactoryNames: the first column of
\* data/botw_resource_factory_info.tsv, here "bfres" and "byaml".
GetBotwFactoryNames == { << 98, 102, 114, 101, 115 >>, << 98, 121, 97, 109, 108 >> }

\* absl::flat_hash_map<std::string, size_t>::insert_or_assign
InsertOrAssign(map, key, value) ==
    [k \in (DOMAIN map) \cup {key} |-> IF k = key THEN value ELSE map[k]]

EmptyMap == [k \in {} |-> 0]

RECURSIVE AssignAll(_, _, _)
AssignAll(map, requirements, i) ==
    IF i > Len(requirements) THEN map
    ELSE AssignAll(InsertOrAssign(map, requirements[i][1], requirements[i][2]),
                   requirements, i + 1)

\* SarcWriter::AddDefaultAlignmentRequirements: every default goes through
\* AddAlignmentRequirement, i.e. insert_or_assign.
AddDefaultAlignmentRequirements(map, endian) ==
    AssignAll(map,
              GetAglEnvAlignmentRequirements \o
              << << << 107, 115, 107, 121 >>, 8 >>,                \* "ksky"
                 << << 98, 107, 115, 107, 121 >>, 8 >>,            \* "bksky"
                 << << 103, 116, 120 >>, 8192 >>,                  \* "gtx"
                 << << 115, 104, 97, 114, 99, 98 >>, 4096 >>,      \* "sharcb"
                 << << 115, 104, 97, 114, 99 >>, 4096 >>,          \* "sharc"
                 << << 98, 97, 103, 108, 109, 102 >>, 128 >>,      \* "baglmf"
                 << << 98, 102, 102, 110, 116 >>,                  \* "bffnt"
                    IF endian = "Big" THEN 8192 ELSE 4096 >> >>,
              1)

\* IsSarc
IsSarc(data) ==
    /\ Len(data) >= 32
    /\ \/ SubSeq(data, 1, 4) = SarcMagic
       \/ (SubSeq(data, 1, 4) = Magic /\ SubSeq(data, 18, 21) = SarcMagic)

\* GetAlignmentForNewBinaryFile
GetAlignmentForNewBinaryFile(data) ==
    IF Len(data) <= 32 THEN 1
    ELSE LET bom == Read(data, 12, 2, "Big")
         IN IF bom # 65279 /\ bom # 65534 THEN 1
            ELSE IF Read32(data, 28, ByteOrderMarkToEndianness(bom)) # Pair32(Len(data))
            THEN 1
            ELSE 2 ^ data[15]

\* GetAlignmentForCafeBflim
GetAlignmentForCafeBflim(data) ==
    IF Len(data) <= 40 \/ SubSeq(data, Len(data) - 39, Len(data) - 36) # << 70, 76, 73, 77 >>
    THEN 1
    ELSE Read(data, Len(data) - 8, 2, "Big")

\* The extension GetAlignmentForFile derives: rfind('.') gives npos for a
\* name without a dot, and npos + 1 wraps to 0, so the whole name is taken.
FileExt(name) ==
    LET dots == {i \in 1..Len(name) : name[i] = 46}
        dot_pos == IF dots = {} THEN -1
                   ELSE (CHOOSE i \in dots : \A j \in dots : j <= i) - 1
    IN IF dot_pos + 1 < Len(name) THEN SubSeq(name, dot_pos + 2, Len(name)) ELSE << >>

\* SarcWriter::GetAlignmentForFile
GetAlignmentForFile(name, data, min_alignment, alignment_map, mode, endian) ==
    LET ext == FileExt(name)
        a1 == IF ext \in DOMAIN alignment_map
              THEN Lcm(min_alignment, alignment_map[ext]) ELSE min_alignment
        a2 == IF mode = "Legacy" /\ IsSarc(data) THEN Lcm(a1, 8192) ELSE a1
    IN IF mode = "Legacy" \/ ext \notin GetBotwFactoryNames
       THEN LET a3 == Lcm(a2, GetAlignmentForNewBinaryFile(data))
            IN IF endian = "Big" THEN Lcm(a3, GetAlignmentForCafeBflim(data)) ELSE a3
       ELSE a2

\* The hash of a file map entry <<name, data>>.
FileHash(file, multiplier) == HashName(multiplier, file[1])

\* Write without the sort: the entries in the map's iteration order.
SortedByHashMutUnsorted(files, multiplier) == { files }

\* absl::c_sort of the file references by name hash: any ordering of the
\* map's entries (whose iteration order is unspecified) that the comparator
\* accepts as sorted; entries with equal hashes may come in either order.
SortedByHash(files, multiplier) ==
    LET n == Len(files)
        perms == {q \in [1..n -> 1..n] : \A i, j \in 1..n : q[i] = q[j] => i = j}
    IN { [i \in 1..n |-> files[q[i]]] :
           q \in {r \in perms : \A i \in 1..(n - 1) :
                     ~Lt32(FileHash(files[r[i + 1]], multiplier),
                           FileHash(files[r[i]], multiplier))} }

\* The SFAT loop of Write from file i on: one ResFatEntry per file.
RECURSIVE FatEntries(_, _, _, _, _, _)
FatEntries(files, alignments, multiplier, i, rel_string_offset, rel_data_offset) ==
    IF i > Len(files) THEN << >>
    ELSE LET data_begin == AlignUp(rel_data_offset, alignments[i])
             entry == [name_hash |-> HashName(multiplier, files[i][1]),
                       rel_name_optional_offset |-> 16777216 + rel_string_offset \div 4,
                       data_begin |-> data_begin,
                       data_end |-> data_begin + Len(files[i][2])]
         IN << entry >> \o
            FatEntries(files, alignments, multiplier, i + 1,
                       rel_string_offset + AlignUp(Len(files[i][1]) + 1, 4),
                       entry.data_end)

\* writer.Write(entry)
RECURSIVE WriteEntries(_, _, _, _)
WriteEntries(w, entries, i, endian) ==
    IF i > Len(entries) THEN w
    ELSE WriteEntries(
             WriteBytes(w, Bytes32(entries[i].name_hash, endian)
                           \o ToBytes(entries[i].rel_name_optional_offset, 4, endian)
                           \o ToBytes(entries[i].data_begin, 4, endian)
                           \o ToBytes(entries[i].data_end, 4, endian)),
             entries, i + 1, endian)

\* The SFNT loop: WriteCStr(name); AlignUp(4).
RECURSIVE WriteNames(_, _, _)
WriteNames(w, files, i) ==
    IF i > Len(files) THEN w
    ELSE WriteNames(WriterAlignUp(WriteBytes(w, Append(files[i][1], 0)), 4), files, i + 1)

\* The file data loop without AlignUp(alignment).
RECURSIVE WriteFileDataMutNoAlign(_, _, _, _)
WriteFileDataMutNoAlign(w, files, alignments, i) ==
    IF i > Len(files) THEN w
    ELSE WriteFileDataMutNoAlign(WriteBytes(w, files[i][2]), files, alignments, i + 1)

\* The file data loop: AlignUp(alignment); WriteBytes(data).
RECURSIVE WriteFileData(_, _, _, _)
WriteFileData(w, files, alignments, i) ==
    IF i > Len(files) THEN w
    ELSE WriteFileData(WriteBytes(WriterAlignUp(w, alignments[i]), files[i][2]),
                       files, alignments, i + 1)

\* absl::c_accumulate(alignments, 1u, std::lcm)
RECURSIVE LcmAll(_, _)
LcmAll(alignments, i) ==
    IF i = 0 THEN 1 ELSE Lcm(LcmAll(alignments, i - 1), alignments[i])

\* SarcWriter::Write after the sort and AddDefaultAlignmentRequirements:
\* the pair (required alignment, archive bytes) for the sorted files and
\* their alignments.
WriteArchive(files, alignments, endian, multiplier) ==
    LET w1 == [buf |-> << >>, off |-> ResHeaderSize]
        w2 == WriteBytes(w1, SfatMagic \o ToBytes(ResFatHeaderSize, 2, endian)
                             \o ToBytes(Len(files) % 65536, 2, endian)
                             \o ToBytes(multiplier, 4, endian))
        w3 == WriteEntries(w2, FatEntries(files, alignments, multiplier, 1, 0, 0), 1, endian)
        w4 == WriteBytes(w3, SfntMagic \o ToBytes(ResFntHeaderSize, 2, endian)
                             \o ToBytes(0, 2, endian))
        w5 == WriteNames(w4, files, 1)
        required_alignment == LcmAll(alignments, Len(alignments))
        w6 == WriterAlignUp(w5, required_alignment)
        w7 == WriteFileData(w6, files, alignments, 1)
        w8 == WriteBytes(Seek(w7, 0),
                         SarcMagic \o ToBytes(ResHeaderSize, 2, endian)
                         \o ToBytes(65279, 2, endian) \o ToBytes(w7.off, 4, endian)
                         \o ToBytes(w6.off, 4, endian) \o ToBytes(256, 2, endian)
                         \o ToBytes(0, 2, endian))
    IN [alignment |-> required_alignment, data |-> w8.buf]

\* The alignments Write computes, one per sorted file.
FileAlignments(files, min_alignment, alignment_map, mode, endian) ==
    [i \in 1..Len(files) |->
        GetAlignmentForFile(files[i][1], files[i][2], min_alignment, alignment_map,
                            mode, endian)]

\* ---- Sarc (the reader)

\* BinaryReader::Read<ResFatEntry>
ReadFatEntry(data, offset, endian) ==
    IF offset + ResFatEntrySize > Len(data)
    THEN [valid |-> FALSE, name_hash |-> << 0, 0 >>, rel_name_optional_offset |-> 0,
          data_begin |-> 0, data_end |-> 0]
    ELSE [valid |-> TRUE, name_hash |-> Read32(data, offset, endian),
          rel_name_optional_offset |-> Read(data, offset + 4, 4, endian),
          data_begin |-> Read(data, offset + 8, 4, endian),
          data_end |-> Read(data, offset + 12, 4, endian)]

NoSarc ==
    [err |-> "closed", data |-> << >>, endian |-> "Big", m_num_files |-> 0,
     m_entries_offset |-> 0, m_hash_multiplier |-> 0, m_data_offset |-> 0,
     m_names_offset |-> 0]

\* Sarc::Sarc(data): the object, or the exception in err.
SarcCtor(data) ==
    IF Len(data) < ResHeaderSize THEN [NoSarc EXCEPT !.err = "bad_optional_access"]
    ELSE
    LET endian == ByteOrderMarkToEndianness(Read(data, 6, 2, "Big"))
        num_files == Read(data, 26, 2, endian)
        entries_offset == ResHeaderSize + ResFatHeaderSize
        fnt_header_offset == entries_offset + ResFatEntrySize * num_files
        names_offset == fnt_header_offset + ResFntHeaderSize
        data_offset == Read(data, 12, 4, endian)
    IN IF \/ SubSeq(data, 1, 4) # SarcMagic
          \/ Read(data, 16, 2, endian) # 256
          \/ Read(data, 4, 2, endian) # ResHeaderSize
       THEN [NoSarc EXCEPT !.err = "InvalidDataError"]
       ELSE IF Len(data) < entries_offset
       THEN [NoSarc EXCEPT !.err = "bad_optional_access"]
       ELSE IF \/ SubSeq(data, 21, 24) # SfatMagic
               \/ Read(data, 24, 2, endian) # ResFatHeaderSize
               \/ num_files \div 16384 # 0
       THEN [NoSarc EXCEPT !.err = "InvalidDataError"]
       ELSE IF names_offset > Len(data)
       THEN [NoSarc EXCEPT !.err = "bad_optional_access"]
       ELSE IF \/ SubSeq(data, fnt_header_offset + 1, fnt_header_offset + 4) # SfntMagic
               \/ Read(data, fnt_header_offset + 4, 2, endian) # ResFntHeaderSize
               \/ data_offset < names_offset
       THEN [NoSarc EXCEPT !.err = "InvalidDataError"]
       ELSE [err |-> "none", data |-> data, endian |-> endian,
             m_num_files |-> num_files, m_entries_offset |-> entries_offset,
             m_hash_multiplier |-> Read(data, 28, 4, endian),
             m_data_offset |-> data_offset, m_names_offset |-> names_offset]

\* The result of a Sarc member call: the exception (err), and for a returned
\* file its name and data.  entry_read tells that the call went on to read
\* a ResFatEntry.
NoResult ==
    [op |-> "none", index |-> 0, wanted |-> << >>, err |-> "none", found |-> FALSE,
     entry_read |-> FALSE, name |-> << >>, data |-> << >>, value |-> 0]

\* Sarc::GetFile(u16 index).  A subspan outside the data is undefined
\* behaviour (err "subspan_out_of_bounds"), resolved by the caller.
GetFile(s, index) ==
    LET base == [NoResult EXCEPT !.op = "GetFile", !.index = index]
        entry == ReadFatEntry(s.data, s.m_entries_offset + ResFatEntrySize * index,
                              s.endian)
        named == entry.rel_name_optional_offset # 0
        name_offset == s.m_names_offset + (entry.rel_name_optional_offset % 16777216) * 4
        begin == s.m_data_offset + entry.data_begin
        count == entry.data_end - entry.data_begin
    IN IF index > s.m_num_files THEN [base EXCEPT !.err = "out_of_range"]
       ELSE IF ~entry.valid
       THEN [base EXCEPT !.err = "bad_optional_access", !.entry_read = TRUE]
       ELSE IF named /\ name_offset > Len(s.data)
       THEN [base EXCEPT !.err = "out_of_range", !.entry_read = TRUE]
       ELSE IF begin > Len(s.data) \/ count < 0 \/ begin + count > Len(s.data)
       THEN [base EXCEPT !.err = "subspan_out_of_bounds", !.entry_read = TRUE]
       ELSE [base EXCEPT !.entry_read = TRUE, !.found = TRUE,
                         !.name = IF named THEN ReadString(s.data, name_offset) ELSE << >>,
                         !.data = SubSeq(s.data, begin + 1, begin + count)]

\* What a build may do with a subspan outside the data: the contract check
\* terminates the program, or the span handed back points outside the buffer.
Outcomes(result) ==
    IF result.err = "subspan_out_of_bounds"
    THEN { [result EXCEPT !.err = e] : e \in {"terminate", "wild_span"} }
    ELSE { result }

\* Sarc::GuessMinAlignment, the loop from entry i on with the gcd so far.
\* The entries lie before the SFNT header the constructor read, so value()
\* never throws.
RECURSIVE GuessLoop(_, _, _)
GuessLoop(s, i, gcd) ==
    IF i >= s.m_num_files THEN gcd
    ELSE GuessLoop(s, i + 1,
                   Gcd(gcd, s.m_data_offset
                            + ReadFatEntry(s.data,
                                           s.m_entries_offset + ResFatEntrySize * i,
                                           s.endian).data_begin))

MinAlignment == 4

GuessMinAlignmentValue(s) ==
    LET gcd == GuessLoop(s, 0, MinAlignment)
    IN IF ~IsValidAlignment(gcd) THEN MinAlignment ELSE gcd

\* FromSarc copying every file under the name of the first.
RECURSIVE EmplaceFilesMutFirstName(_, _, _)
EmplaceFilesMutFirstName(s, i, files) ==
    IF i >= s.m_num_files THEN [err |-> "none", files |-> files]
    ELSE LET file == GetFile(s, i)
             name == GetFile(s, 0).name
         IN IF \E k \in 1..Len(files) : files[k][1] = name
            THEN EmplaceFilesMutFirstName(s, i + 1, files)
            ELSE EmplaceFilesMutFirstName(s, i + 1, Append(files, << name, file.data >>))

\* SarcWriter::FromSarc, the loop over archive.GetFiles() from index i on:
\* emplace keeps the first data of a name.
RECURSIVE EmplaceFiles(_, _, _)
EmplaceFiles(s, i, files) ==
    IF i >= s.m_num_files THEN [err |-> "none", files |-> files]
    ELSE LET file == GetFile(s, i)
         IN IF file.err # "none" THEN [err |-> file.err, files |-> files]
            ELSE IF \E k \in 1..Len(files) : files[k][1] = file.name
            THEN EmplaceFiles(s, i + 1, files)
            ELSE EmplaceFiles(s, i + 1, Append(files, << file.name, file.data >>))

\* ---- The files and names of the SARC model

\* Bound: the number of files in an archive.
MaxFiles == 2

\* A file with a nn::util::BinaryFileHeader: BOM 0xFEFF at 0xC, alignment
\* shift 4 at 0xE, its own size (0x21) at 0x1C.
NxHeaderFile ==
    [i \in 1..33 |-> CASE i = 13 -> 254 [] i = 14 -> 255 [] i = 15 -> 4
                       [] i = 32 -> 33 [] OTHER -> 0]

\* A Cafe BFLIM: "FLIM" 0x28 bytes before the end, the alignment (0x20) as
\* a big endian u16 8 bytes before the end.
BflimFile ==
    [i \in 1..41 |-> CASE i = 2 -> 70 [] i = 3 -> 76 [] i = 4 -> 73 [] i = 5 -> 77
                       [] i = 35 -> 32 [] OTHER -> 0]

\* "a.bin", "b.bin", "c.ksky", "d.bin", "e.bflim", "f.bfres"
FilePool ==
    { << << 97, 46, 98, 105, 110 >>, << 0 >> >>,
      << << 98, 46, 98, 105, 110 >>, << 1 >> >>,
      << << 99, 46, 107, 115, 107, 121 >>, << 1, 2, 3, 4, 5 >> >>,
      << << 100, 46, 98, 105, 110 >>, NxHeaderFile >>,
      << << 101, 46, 98, 102, 108, 105, 109 >>, BflimFile >>,
      << << 102, 46, 98, 102, 114, 101, 115 >>, NxHeaderFile >> }

\* The names looked up: those of the pool, and "", "a.aaa" and "zaaaa",
\* which hash below, between and above the hashes of the pool.
WantedNames ==
    { f[1] : f \in FilePool } \cup
    { << >>, << 97, 46, 97, 97, 97 >>, << 122, 97, 97, 97, 97 >> }

\* The file maps of at most MaxFiles entries, in any iteration order.
FileLists ==
    UNION { { q \in [1..n -> FilePool] : \A i, j \in 1..n : q[i][1] = q[j][1] => i = j } :
            n \in 0..MaxFiles }

\* An archive whose entries do not use the file name table
\* (rel_name_optional_offset is 0 in every ResFatEntry), as Sarc::File::name
\* allows for.
WithoutNames(data, num_files) ==
    [i \in 1..Len(data) |->
        IF \E k \in 0..(num_files - 1) :
               i - 1 \in (ResHeaderSize + ResFatHeaderSize + ResFatEntrySize * k + 4)
                         ..(ResHeaderSize + ResFatHeaderSize + ResFatEntrySize * k + 7)
        THEN 0 ELSE data[i]]

NoWriteResult == [valid |-> FALSE, alignment |-> 0, data |-> << >>]

BsIdle == [pc |-> "idle", wanted_hash |-> << 0, 0 >>, a |-> << 0, 0 >>,
           b |-> << 0, 0 >>, m |-> << 0, 0 >>]

\* ---- SarcWriter

\* m_files[name] = data for a name not yet in the map.
AddFile ==
    /\ sarc_pc = "building"
    /\ Len(m_files) < MaxFiles
    /\ \E f \in FilePool :
          /\ \A k \in 1..Len(m_files) : m_files[k][1] # f[1]
          /\ m_files' = Append(m_files, f)
    /\ UNCHANGED <<sarc_pc, m_endian, m_mode, m_min_alignment, m_alignment_map,
                   caller_requirements, write_result, sarcReaderVars, yazVars, bymlVars, aampVars>>

\* SarcWriter::SetMinAlignment (throws, changing nothing, for an invalid
\* alignment)
SetMinAlignment ==
    /\ sarc_pc = "building"
    /\ \E alignment \in {0, 16} :
          m_min_alignment' = IF ~IsValidAlignment(alignment) THEN m_min_alignment
                             ELSE alignment
    /\ UNCHANGED <<sarc_pc, m_files, m_endian, m_mode, m_alignment_map,
                   caller_requirements, write_result, sarcReaderVars, yazVars, bymlVars, aampVars>>

\* SarcWriter::AddAlignmentRequirement
AddAlignmentRequirement ==
    /\ sarc_pc = "building"
    /\ \E extension \in { << 107, 115, 107, 121 >>, << 98, 105, 110 >> },   \* "ksky", "bin"
          alignment \in {0, 1, 16} :
          IF ~IsValidAlignment(alignment)
          THEN UNCHANGED <<m_alignment_map, caller_requirements>>
          ELSE /\ m_alignment_map' = InsertOrAssign(m_alignment_map, extension, alignment)
               /\ caller_requirements' =
                      InsertOrAssign(caller_requirements, extension, alignment)
    /\ UNCHANGED <<sarc_pc, m_files, m_endian, m_mode, m_min_alignment, write_result,
                   sarcReaderVars, yazVars, bymlVars, aampVars>>

\* SarcWriter::Write
Write ==
    /\ sarc_pc \in {"building", "copied"}
    /\ \E files \in SortedByHash(m_files, DefaultHashMultiplier) :
          LET map == AddDefaultAlignmentRequirements(m_alignment_map, m_endian)
              result == WriteArchive(files,
                                     FileAlignments(files, m_min_alignment, map, m_mode,
                                                    m_endian),
                                     m_endian, DefaultHashMultiplier)
          IN /\ m_alignment_map' = map
             /\ write_result' = [valid |-> TRUE, alignment |-> result.alignment,
                                 data |-> result.data]
    /\ sarc_pc' = IF sarc_pc = "building" THEN "written" ELSE "rewritten"
    /\ UNCHANGED <<m_files, m_endian, m_mode, m_min_alignment, caller_requirements,
                   sarcReaderVars, yazVars, bymlVars, aampVars>>

\* SarcWriter::FromSarc
FromSarc ==
    /\ sarc_pc = "opened"
    /\ bs.pc = "idle"
    /\ LET copied == EmplaceFiles(sarc, 0, << >>)
       IN IF copied.err # "none"
          THEN /\ got' = [NoResult EXCEPT !.op = "FromSarc", !.err = copied.err]
               /\ UNCHANGED <<sarc_pc, sarcWriterVars, source>>
          ELSE /\ m_files' = copied.files
               /\ m_endian' = sarc.endian
               /\ m_min_alignment' = GuessMinAlignmentValue(sarc)
               /\ m_mode' = "New"
               /\ m_alignment_map' = EmptyMap
               /\ caller_requirements' = EmptyMap
               /\ write_result' = NoWriteResult
               /\ source' = sarc
               /\ sarc_pc' = "copied"
               /\ got' = NoResult
    /\ UNCHANGED <<sarc, bs, yazVars, bymlVars, aampVars>>

\* ---- Sarc

\* Sarc::Sarc on the bytes Write returned.
Reopen ==
    /\ sarc_pc = "rewritten"
    /\ sarc' = SarcCtor(write_result.data)
    /\ sarc_pc' = "reopened"
    /\ UNCHANGED <<sarcWriterVars, source, got, bs, yazVars, bymlVars, aampVars>>

\* Sarc::GetFile(u16 index)
GetFileAt ==
    /\ sarc_pc = "opened"
    /\ bs.pc = "idle"
    /\ \E index \in 0..(sarc.m_num_files + 1) :
          \E result \in Outcomes(GetFile(sarc, index)) : got' = result
    /\ UNCHANGED <<sarc_pc, sarcWriterVars, sarc, source, bs, yazVars, bymlVars, aampVars>>

\* Sarc::GuessMinAlignment
GuessMinAlignment ==
    /\ sarc_pc = "opened"
    /\ bs.pc = "idle"
    /\ got' = [NoResult EXCEPT !.op = "GuessMinAlignment",
                               !.value = GuessMinAlignmentValue(sarc)]
    /\ UNCHANGED <<sarc_pc, sarcWriterVars, sarc, source, bs, yazVars, bymlVars, aampVars>>

\* Sarc::GetFile(name) up to the loop: nullopt for an empty archive, else
\* a = 0 and b = m_num_files - 1.
GetFileByName ==
    /\ sarc_pc = "opened"
    /\ bs.pc = "idle"
    /\ \E name \in WantedNames :
          IF sarc.m_num_files = 0
          THEN /\ got' = [NoResult EXCEPT !.op = "GetFileByName", !.wanted = name]
               /\ UNCHANGED bs
          ELSE /\ got' = [NoResult EXCEPT !.op = "searching", !.wanted = name]
               /\ bs' = [pc |-> "test",
                         wanted_hash |-> HashName(sarc.m_hash_multiplier, name),
                         a |-> << 0, 0 >>, b |-> Pair32(sarc.m_num_files - 1),
                         m |-> << 0, 0 >>]
    /\ UNCHANGED <<sarc_pc, sarcWriterVars, sarc, source, yazVars, bymlVars, aampVars>>

\* while (a <= b): leave the loop with nullopt, or m = (a + b) / 2.
SearchTest ==
    /\ bs.pc = "test"
    /\ IF Lt32(bs.b, bs.a)
       THEN /\ got' = [got EXCEPT !.op = "GetFileByName"]
            /\ bs' = BsIdle
       ELSE /\ bs' = [bs EXCEPT !.pc = "probe", !.m = Half32(Add32(bs.a, bs.b))]
            /\ UNCHANGED got
    /\ UNCHANGED <<sarc_pc, sarcWriterVars, sarc, source, yazVars, bymlVars, aampVars>>

\* The loop body: hash is Read<u32>(m_entries_offset + 16 * m), nullopt past
\* the end of the data (always so for m >= 2^16, the data being far shorter
\* than 2^20 bytes).  An optional without a value compares below every u32.
SearchProbe ==
    /\ bs.pc = "probe"
    /\ LET hash == IF bs.m[1] > 0 THEN << >>
                   ELSE Read32(sarc.data,
                               sarc.m_entries_offset + ResFatEntrySize * bs.m[2],
                               sarc.endian)
       IN IF hash # << >> /\ Lt32(bs.wanted_hash, hash)
          THEN /\ bs' = [bs EXCEPT !.pc = "test", !.b = Add32(bs.m, << 65535, 65535 >>)]
               /\ UNCHANGED got
          ELSE IF hash = << >> \/ Lt32(hash, bs.wanted_hash)
          THEN /\ bs' = [bs EXCEPT !.pc = "test", !.a = Add32(bs.m, << 0, 1 >>)]
               /\ UNCHANGED got
          ELSE /\ \E result \in Outcomes(GetFile(sarc, bs.m[2])) :
                     got' = [result EXCEPT !.op = "GetFileByName", !.wanted = got.wanted]
               /\ bs' = BsIdle
    /\ UNCHANGED <<sarc_pc, sarcWriterVars, sarc, source, yazVars, bymlVars, aampVars>>

\* A default constructed SarcWriter with the given endianness and mode.
NewSarcWriter(endian, mode) ==
    /\ m_files = << >>
    /\ m_endian = endian
    /\ m_mode = mode
    /\ m_min_alignment = MinAlignment
    /\ m_alignment_map = EmptyMap
    /\ caller_requirements = EmptyMap
    /\ write_result = NoWriteResult

SarcIdle ==
    /\ sarc_pc = "idle"
    /\ NewSarcWriter("Little", "New")
    /\ sarc = NoSarc
    /\ source = NoSarc
    /\ got = NoResult
    /\ bs = BsIdle

\* SarcWriter(endian, mode)
SarcWriterInit ==
    /\ sarc_pc = "building"
    /\ \E endian \in {"Big", "Little"}, mode \in {"Legacy", "New"} :
          NewSarcWriter(endian, mode)
    /\ sarc = NoSarc
    /\ source = NoSarc
    /\ got = NoResult
    /\ bs = BsIdle

SarcWriterNext == AddFile \/ SetMinAlignment \/ AddAlignmentRequirement \/ Write

\* The archives handed to Sarc::Sarc: what a SarcWriter with the default
\* settings writes for a file map, with or without the file name table in use.
InputArchives ==
    { LET archive == WriteArchive(files,
                                  FileAlignments(files, MinAlignment,
                                                 AddDefaultAlignmentRequirements(EmptyMap,
                                                                                 endian),
                                                 "New", endian),
                                  endian, DefaultHashMultiplier).data
      IN IF named THEN archive ELSE WithoutNames(archive, Len(files)) :
        files \in UNION { SortedByHash(q, DefaultHashMultiplier) : q \in FileLists },
        endian \in {"Big", "Little"}, named \in BOOLEAN }

\* Sarc(data) for an input archive.
SarcInit ==
    /\ sarc_pc = "opened"
    /\ NewSarcWriter("Little", "New")
    /\ \E data \in InputArchives : sarc = SarcCtor(data)
    /\ source = NoSarc
    /\ got = NoResult
    /\ bs = BsIdle

SarcNext ==
    \/ GetFileAt \/ GuessMinAlignment \/ GetFileByName \/ SearchTest \/ SearchProbe
    \/ FromSarc \/ Write \/ Reopen

(***************************************************************************)
(* BYML                                                                    *)
(* A node is the pair <<type, value>>: the value is TRUE/FALSE for Bool,   *)
(* the 32-bit pattern for Int, UInt and Float, the 8 bytes (most           *)
(* significant first) for Int64, UInt64 and Double, the characters for     *)
(* String, the bytes for Binary, [data, align] for File, the items for     *)
(* Array and the <<key, node>> pairs in key order (the iteration order of  *)
(* absl::btree_map) for Dictionary, Hash32 and Hash64.  The 32-bit         *)
(* patterns of the documents and the offsets of their binary form are      *)
(* below 2^31.                                                             *)
(***************************************************************************)
\* enum class NodeType; GetNodeType(type) is NodeType[type].
NodeType ==
    [Hash32 |-> 32, Hash64 |-> 33, String |-> 160, Binary |-> 161, File |-> 162,
     Array |-> 192, Dictionary |-> 193, StringTable |-> 194, PathTable |-> 195,
     RelocatedStringTable |-> 197, Bool |-> 208, Int |-> 209, Float |-> 210,
     UInt |-> 211, Int64 |-> 212, UInt64 |-> 213, Double |-> 214, Null |-> 255]

\* The enumerator a type byte read from the data stands for.
NodeTypeName(byte) ==
    IF \E t \in DOMAIN NodeType : NodeType[t] = byte
    THEN CHOOSE t \in DOMAIN NodeType : NodeType[t] = byte
    ELSE "Unknown"

IsContainerType(type) == type \in {"Array", "Dictionary", "Hash32", "Hash64"}

IsLongType(type) == type \in {"Int64", "UInt64", "Double"}

IsNonInlineType(type) ==
    IsContainerType(type) \/ IsLongType(type) \/ type \in {"Binary", "File"}

IsValidVersion(version) == 1 <= version /\ version <= 10

\* Byml::GetType and Byml::Get<type> of a node.
GetType(data) == data[1]

Get(data) == data[2]

NullNode == << "Null", 0 >>

\* operator< of std::string / std::string_view, and of u64 on its bytes.
RECURSIVE StrLess(_, _)
StrLess(x, y) ==
    IF y = << >> THEN FALSE
    ELSE IF x = << >> THEN TRUE
    ELSE IF Head(x) # Head(y) THEN Head(x) < Head(y)
    ELSE StrLess(Tail(x), Tail(y))

\* BinaryWriter::Write<u64> / BinaryReader::Read<u64>: the 8 bytes of the
\* value in the given byte order, and back (the empty tuple is nullopt).
Bytes64(v, endian) == IF endian = "Big" THEN v ELSE [i \in 1..8 |-> v[9 - i]]

Read64(data, offset, endian) ==
    IF offset + 8 > Len(data) THEN << >>
    ELSE Bytes64(SubSeq(data, offset + 1, offset + 8), endian)

\* BinaryWriterBase::RunAt(offset, fn) with fn writing the given bytes.
RunAt(w, offset, bytes) == Seek(WriteBytes(Seek(w, offset), bytes), w.off)

\* ---- writer
\* SortMapKeys with std::sort comparing by operator> instead of operator<.
RECURSIVE SortMapKeysMutDescending(_)
SortMapKeysMutDescending(keys) ==
    IF keys = {} THEN << >>
    ELSE LET first == CHOOSE k \in keys : \A o \in keys \ {k} : StrLess(o, k)
         IN << first >> \o SortMapKeysMutDescending(keys \ {first})

\* SortMapKeys: the keys in ascending order.
RECURSIVE SortMapKeys(_)
SortMapKeys(keys) ==
    IF keys = {} THEN << >>
    ELSE LET first == CHOOSE k \in keys : \A o \in keys \ {k} : StrLess(k, o)
         IN << first >> \o SortMapKeys(keys \ {first})

\* StringTable::GetIndex
GetIndex(table, string) == (CHOOSE i \in 1..Len(table) : table[i] = string) - 1

\* The traverse lambda of the WriteContext constructor: the strings it adds
\* to the string table (table = "String") or to the hash key table
\* (table = "Dictionary").
RECURSIVE Traverse(_, _)
Traverse(data, table) ==
    LET children ==
            IF GetType(data) = "Array" THEN { Get(data)[i] : i \in 1..Len(Get(data)) }
            ELSE IF IsContainerType(GetType(data))
            THEN { Get(data)[i][2] : i \in 1..Len(Get(data)) }
            ELSE {}
        own == IF GetType(data) # table THEN {}
               ELSE IF table = "String" THEN { Get(data) }
               ELSE { Get(data)[i][1] : i \in 1..Len(Get(data)) }
    IN own \cup UNION { Traverse(c, table) : c \in children }

\* WriteContext::WriteContext: the writer, the two built tables and the
\* offsets of the non-inline nodes written so far.
BymlWriteContext(root, endianness) ==
    [writer |-> [buf |-> << >>, off |-> 0],
     endian |-> endianness,
     hash_key_table |-> SortMapKeys(Traverse(root, "Dictionary")),
     string_table |-> SortMapKeys(Traverse(root, "String")),
     non_inline_node_data |-> << >>]

\* WriteContext::WriteValueNode
WriteValueNode(ctx, data) ==
    LET Put(bytes) == [ctx EXCEPT !.writer = WriteBytes(@, bytes)]
        u32(x) == ToBytes(x, 4, ctx.endian)
    IN CASE GetType(data) = "Null" -> Put(u32(0))
         [] GetType(data) = "String" -> Put(u32(GetIndex(ctx.string_table, Get(data))))
         [] GetType(data) = "Binary" -> Put(u32(Len(Get(data))) \o Get(data))
         [] GetType(data) = "File" ->
                [ctx EXCEPT !.writer =
                    WriteBytes(Seek(@, AlignUp(Get(data).align, @.off + 8) - 8),
                               u32(Len(Get(data).data)) \o u32(Get(data).align) \o Get(data).data)]
         [] GetType(data) = "Bool" -> Put(u32(IF Get(data) THEN 1 ELSE 0))
         [] GetType(data) \in {"Int", "Float"} -> Put(u32(Get(data)))
         [] GetType(data) = "UInt" -> Put(Bytes32(Get(data), ctx.endian))
         [] IsLongType(GetType(data)) -> Put(Bytes64(Get(data), ctx.endian))

FindNonInlineNodeMutMissing(non_inline_node_data, node) == {}

\* non_inline_node_data.find(node): the entries of the map whose key equals
\* the node (the same type and, by value, the same contents).
FindNonInlineNode(non_inline_node_data, node) ==
    { j \in 1..Len(non_inline_node_data) : non_inline_node_data[j][1] = node }

\* WriteContext::WriteContainerNode
RECURSIVE WriteContainerNode(_, _)
WriteContainerNode(ctx, data) ==
    LET endian == ctx.endian
        size == Len(Get(data))
        Put(c, bytes) == [c EXCEPT !.writer = WriteBytes(@, bytes)]
        item(i) == IF GetType(data) = "Array" THEN Get(data)[i] ELSE Get(data)[i][2]
        types == [i \in 1..size |-> NodeType[GetType(item(i))]]
        \* what is written in front of the i-th value cell
        key(i) ==
            CASE GetType(data) = "Array" -> << >>
              [] GetType(data) = "Dictionary" ->
                     ToBytes(GetIndex(ctx.hash_key_table, Get(data)[i][1]), 3, endian)
                         \o << types[i] >>
              [] GetType(data) = "Hash32" -> ToBytes(Get(data)[i][1], 4, endian)
              [] GetType(data) = "Hash64" -> Bytes64(Get(data)[i][1], endian)
        \* the write_container_item lambda, on [ctx, non_inline_nodes]
        write_container_item(st, value) ==
            IF IsNonInlineType(GetType(value))
            THEN [ctx |-> Put(st.ctx, ToBytes(0, 4, endian)),
                  non_inline_nodes |->
                      Append(st.non_inline_nodes, << st.ctx.writer.off, value >>)]
            ELSE [st EXCEPT !.ctx = WriteValueNode(@, value)]
        RECURSIVE Items(_, _)
        Items(st, i) ==
            IF i > size \/ st.ctx.writer.off < 0 THEN st
            ELSE Items(write_container_item([st EXCEPT !.ctx = Put(@, key(i))], item(i)),
                       i + 1)
        header == Put(ctx, << NodeType[GetType(data)] >> \o ToBytes(size, 3, endian))
        items ==
            Items([ctx |-> IF GetType(data) = "Array"
                           THEN [header EXCEPT !.writer = WriterAlignUp(WriteBytes(@, types), 4)]
                           ELSE header,
                   non_inline_nodes |-> << >>], 1)
        container ==
            IF GetType(data) \in {"Hash32", "Hash64"}
            THEN [items.ctx EXCEPT !.writer = WriterAlignUp(WriteBytes(@, types), 4)]
            ELSE items.ctx
        RECURSIVE NonInlineNodes(_, _)
        NonInlineNodes(c, k) ==
            IF k > Len(items.non_inline_nodes) THEN c
            ELSE LET node == items.non_inline_nodes[k]
                     written == FindNonInlineNode(c.non_inline_node_data, node[2])
                     offset == IF GetType(node[2]) # "File" THEN c.writer.off
                               ELSE AlignUp(Get(node[2]).align, c.writer.off + 8) - 8
                     fresh == [c EXCEPT
                                  !.writer = RunAt(@, node[1], ToBytes(offset, 4, endian)),
                                  !.non_inline_node_data = Append(@, << node[2], offset >>)]
                 IN IF written # {}
                    THEN NonInlineNodes(
                             [c EXCEPT !.writer =
                                 RunAt(@, node[1],
                                       ToBytes(c.non_inline_node_data[CHOOSE j \in written : TRUE][2],
                                               4, endian))],
                             k + 1)
                    ELSE NonInlineNodes(IF IsContainerType(GetType(node[2]))
                                        THEN WriteContainerNode(fresh, node[2])
                                        ELSE WriteValueNode(fresh, node[2]),
                                        k + 1)
    IN NonInlineNodes(container, 1)

\* WriteContext::WriteStringTable
WriteStringTable(w, table, endian) ==
    LET base == w.off
        size == Len(table)
        offset_table_offset == base + 4
        RECURSIVE Strings(_, _)
        \* (a cursor is never negative: the test has each write evaluated
        \* before the next one, in the order of the statements)
        Strings(x, i) ==
            IF i > size \/ x.off < 0 THEN x
            ELSE Strings(WriteBytes(RunAt(x, offset_table_offset + 4 * (i - 1),
                                          ToBytes(x.off - base, 4, endian)),
                                    table[i] \o << 0 >>),
                         i + 1)
        strings ==
            Strings(Seek(WriteBytes(w, << NodeType.StringTable >> \o ToBytes(size, 3, endian)),
                         offset_table_offset + 4 * (size + 1)), 1)
    IN WriterAlignUp(RunAt(strings, offset_table_offset + 4 * size,
                           ToBytes(strings.off - base, 4, endian)), 4)

\* Byml::ToBinary: [err, data], the exception thrown or the bytes returned.
BymlToBinary(root, big_endian, version) ==
    LET endian == IF big_endian THEN "Big" ELSE "Little"
        ctx == BymlWriteContext(root, endian)
        header == WriteBytes(ctx.writer,
                             (IF big_endian THEN << 66, 89 >> ELSE << 89, 66 >>)
                                 \o ToBytes(version, 2, endian)
                                 \o [i \in 1..12 |-> 0])
        Table(w, table, field) ==
            IF table = << >> THEN w
            ELSE WriteStringTable(RunAt(w, field, ToBytes(w.off, 4, endian)), table, endian)
        tables == Table(Table(header, ctx.hash_key_table, 4), ctx.string_table, 8)
        root_node == WriterAlignUp(RunAt(tables, 12, ToBytes(tables.off, 4, endian)), 4)
    IN IF ~IsValidVersion(version) THEN [err |-> "invalid_argument", data |-> << >>]
       ELSE IF GetType(root) = "Null" THEN [err |-> "none", data |-> header.buf]
       ELSE IF ~IsContainerType(GetType(root))
       THEN [err |-> "invalid_argument", data |-> << >>]
       ELSE LET Root(w) ==
                    IF w.off < 0 THEN << >>
                    ELSE WriteContainerNode([ctx EXCEPT !.writer = w], root).writer.buf
            IN [err |-> "none", data |-> Root(root_node)]

\* ---- parser
\* A parse result is [err, v]: the exception thrown ("none" if none) and the
\* node returned.
Throw(e) == [err |-> e, v |-> NullNode]

\* StringTableParser::StringTableParser
StringTableParser(data, offset, endian) ==
    LET type == Read(data, offset, 1, endian)
        num_entries == Read(data, offset + 1, 3, endian)
        reloc == Read(data, offset + (IF endian = "Big" THEN 8 ELSE 4), 4, endian)
    IN IF offset = 0 THEN [err |-> "none", m_offset |-> 0, m_size |-> 0]
       ELSE IF type = Nullopt \/ num_entries = Nullopt
               \/ type \notin {NodeType.StringTable, NodeType.RelocatedStringTable}
       THEN [err |-> "InvalidData", m_offset |-> 0, m_size |-> 0]
       ELSE IF type = NodeType.StringTable
       THEN [err |-> "none", m_offset |-> offset, m_size |-> num_entries]
       \* *reloc of an empty optional: the value is whatever the build gives
       ELSE IF offset + 12 > Len(data)
       THEN [err |-> "nullopt_dereferenced", m_offset |-> 0, m_size |-> 0]
       ELSE [err |-> "none", m_offset |-> offset + reloc, m_size |-> num_entries]

\* StringTableParser::GetString
GetString(data, table, idx, endian) ==
    LET rel_offset == Read(data, table.m_offset + 4 + 4 * idx, 4, endian)
        next_rel_offset == Read(data, table.m_offset + 8 + 4 * idx, 4, endian)
        max_len == next_rel_offset - rel_offset
        string == ReadString(data, table.m_offset + rel_offset)
    IN IF idx >= table.m_size THEN Throw("out_of_range")
       ELSE IF rel_offset = Nullopt \/ next_rel_offset = Nullopt THEN Throw("InvalidData")
       ELSE IF next_rel_offset < rel_offset THEN Throw("InvalidData")
       ELSE IF table.m_offset + rel_offset > Len(data) THEN Throw("out_of_range")
       ELSE [err |-> "none",
             v |-> << "String",
                      IF Len(string) > max_len THEN SubSeq(string, 1, max_len) ELSE string >>]

\* Parser::ParseValueNode; p is the parser: [data, endian, m_hash_key_table,
\* m_string_table].
ParseValueNode(p, offset, type) ==
    LET raw == Read(p.data, offset, 4, p.endian)
        name == NodeTypeName(type)
        long_value == Read64(p.data, raw, p.endian)
        size == Read(p.data, raw, 4, p.endian)
        align == Read(p.data, raw + 4, 4, p.endian)
        Bytes(from) ==
            \* constructing the vector from a range that leaves the span
            IF from + size > Len(p.data) THEN Throw("read_outside_buffer")
            ELSE [err |-> "none",
                  v |-> IF name = "Binary"
                        THEN << name, SubSeq(p.data, from + 1, from + size) >>
                        ELSE << name, [data |-> SubSeq(p.data, from + 1, from + size),
                                       align |-> align] >>]
    IN IF raw = Nullopt THEN Throw("InvalidData")
       ELSE CASE name = "String" -> GetString(p.data, p.m_string_table, raw, p.endian)
              [] name = "Binary" ->
                     IF size = Nullopt THEN Throw("bad_optional_access") ELSE Bytes(raw + 4)
              [] name = "File" ->
                     IF size = Nullopt \/ align = Nullopt THEN Throw("bad_optional_access")
                     ELSE Bytes(raw + 8)
              [] name = "Bool" -> [err |-> "none", v |-> << name, raw # 0 >>]
              [] name = "Float" -> [err |-> "none", v |-> << name, raw >>]
              [] name = "Int" ->
                     [err |-> "none", v |-> << name, S32(Read32(p.data, offset, p.endian)) >>]
              [] name = "UInt" ->
                     [err |-> "none", v |-> << name, Read32(p.data, offset, p.endian) >>]
              [] IsLongType(name) ->
                     IF long_value = << >> THEN Throw("InvalidData")
                     ELSE [err |-> "none", v |-> << name, long_value >>]
              [] name = "Null" -> [err |-> "none", v |-> NullNode]
              [] OTHER -> Throw("InvalidData")

\* btree_map::emplace: the pair goes to its place in key order unless the
\* key is already there; numeric tells u32 keys from u64 and string keys.
Emplace(map, key, value, numeric) ==
    LET Less(x, y) == IF numeric THEN x < y ELSE StrLess(x, y)
    IN IF \E i \in 1..Len(map) : map[i][1] = key THEN map
       ELSE LET before == Cardinality({ i \in 1..Len(map) : Less(map[i][1], key) })
            IN SubSeq(map, 1, before) \o << << key, value >> >>
                   \o SubSeq(map, before + 1, Len(map))

RECURSIVE ParseContainerNode(_, _, _)

\* Parser::ParseContainerChildNode; type is what Read<NodeType> returned and
\* depth the number of containers above.
ParseContainerChildNode(p, offset, type, depth) ==
    IF type = Nullopt THEN Throw("bad_optional_access")
    ELSE IF IsContainerType(NodeTypeName(type))
    THEN IF Read(p.data, offset, 4, p.endian) = Nullopt THEN Throw("bad_optional_access")
         ELSE ParseContainerNode(p, Read(p.data, offset, 4, p.endian), depth + 1)
    ELSE ParseValueNode(p, offset, type)

\* Parser::ParseHash32Node
ParseHash32Node(p, offset, size, depth) ==
    LET types_offset == offset + 4 + 8 * size
        RECURSIVE Entries(_, _)
        Entries(i, result) ==
            IF i >= size THEN [err |-> "none", v |-> << "Hash32", result >>]
            ELSE LET type == Read(p.data, types_offset + i, 1, p.endian)
                     hash == Read(p.data, offset + 4 + 8 * i, 4, p.endian)
                     child == ParseContainerChildNode(p, offset + 8 + 8 * i, type, depth)
                 IN IF child.err # "none" THEN child
                    ELSE Entries(i + 1, Emplace(result, hash, child.v, TRUE))
    IN Entries(0, << >>)

\* Parser::ParseHash64Node
ParseHash64Node(p, offset, size, depth) ==
    LET types_offset == offset + 4 + 12 * size
        RECURSIVE Entries(_, _)
        Entries(i, result) ==
            IF i >= size THEN [err |-> "none", v |-> << "Hash64", result >>]
            ELSE LET type == Read(p.data, types_offset + i, 1, p.endian)
                     hash == Read64(p.data, offset + 4 + 12 * i, p.endian)
                     child == ParseContainerChildNode(p, offset + 8 + 12 * i, type, depth)
                 IN IF child.err # "none" THEN child
                    ELSE Entries(i + 1, Emplace(result, hash, child.v, FALSE))
    IN Entries(0, << >>)

\* Parser::ParseArrayNode
ParseArrayNode(p, offset, size, depth) ==
    LET values_offset == AlignUp(offset + 4 + size, 4)
        RECURSIVE Entries(_, _)
        Entries(i, result) ==
            IF i >= size THEN [err |-> "none", v |-> << "Array", result >>]
            ELSE LET type == Read(p.data, offset + 4 + i, 1, p.endian)
                     child == ParseContainerChildNode(p, values_offset + 4 * i, type, depth)
                 IN IF child.err # "none" THEN child
                    ELSE Entries(i + 1, Append(result, child.v))
    IN Entries(0, << >>)

\* Parser::ParseDictionaryNode
ParseDictionaryNode(p, offset, size, depth) ==
    LET RECURSIVE Entries(_, _)
        Entries(i, result) ==
            IF i >= size THEN [err |-> "none", v |-> << "Dictionary", result >>]
            ELSE LET entry_offset == offset + 4 + 8 * i
                     name_idx == Read(p.data, entry_offset, 3, p.endian)
                     type == Read(p.data, entry_offset + 3, 1, p.endian)
                     name == GetString(p.data, p.m_hash_key_table, name_idx, p.endian)
                     child == ParseContainerChildNode(p, entry_offset + 4, type, depth)
                 IN IF name_idx = Nullopt THEN Throw("bad_optional_access")
                    ELSE IF name.err # "none" THEN name
                    ELSE IF child.err # "none" THEN child
                    ELSE Entries(i + 1, Emplace(result, Get(name.v), child.v, FALSE))
    IN Entries(0, << >>)

\* The nesting of containers beyond which a parse is given up as not
\* returning.
MaxParseDepth == 4

\* Parser::ParseContainerNode
ParseContainerNode(p, offset, depth) ==
    LET type == Read(p.data, offset, 1, p.endian)
        num_entries == Read(p.data, offset + 1, 3, p.endian)
        name == NodeTypeName(type)
    IN IF depth > MaxParseDepth THEN Throw("unbounded_recursion")
       ELSE IF type = Nullopt \/ num_entries = Nullopt THEN Throw("InvalidData")
       ELSE CASE name = "Array" -> ParseArrayNode(p, offset, num_entries, depth)
              [] name = "Dictionary" -> ParseDictionaryNode(p, offset, num_entries, depth)
              [] name = "Hash32" -> ParseHash32Node(p, offset, num_entries, depth)
              [] name = "Hash64" -> ParseHash64Node(p, offset, num_entries, depth)
              [] OTHER -> Throw("InvalidData")

\* Byml::FromBinary: Parser::Parser, then Parser::Parse.
BymlFromBinary(data) ==
    LET is_big_endian == data[1] = 66 /\ data[2] = 89
        is_little_endian == data[1] = 89 /\ data[2] = 66
        endianness == IF is_big_endian THEN "Big" ELSE "Little"
        m_hash_key_table == StringTableParser(data, Read(data, 4, 4, endianness), endianness)
        m_string_table == StringTableParser(data, Read(data, 8, 4, endianness), endianness)
        root_node_offset == Read(data, 12, 4, endianness)
    IN IF Len(data) < 16 THEN Throw("InvalidData")
       ELSE IF ~is_big_endian /\ ~is_little_endian THEN Throw("InvalidData")
       ELSE IF ~IsValidVersion(Read(data, 2, 2, endianness)) THEN Throw("InvalidData")
       ELSE IF m_hash_key_table.err # "none" THEN Throw(m_hash_key_table.err)
       ELSE IF m_string_table.err # "none" THEN Throw(m_string_table.err)
       ELSE IF root_node_offset # 0
               /\ Read(data, root_node_offset, 1, endianness) = NodeType.PathTable
       THEN Throw("Unsupported")
       ELSE IF root_node_offset = 0 THEN [err |-> "none", v |-> NullNode]
       ELSE ParseContainerNode([data |-> data, endian |-> endianness,
                                m_hash_key_table |-> m_hash_key_table,
                                m_string_table |-> m_string_table],
                               root_node_offset, 0)

\* ---- typed getters
\* A getter returns [err, v]: the exception thrown ("none" if none) and the
\* value returned.  An Int holds an s32, a UInt a u32 as the pair of its
\* halves, the 64-bit types the 8 bytes of the value, most significant first.
\* Variant::Get<type> is std::get on the alternative of the type.
VariantGet(data, type) ==
    IF GetType(data) = type THEN [err |-> "none", v |-> Get(data)]
    ELSE Throw("bad_variant_access")

\* CheckPositiveAndReturn; negative is the outcome of !(value >= 0) for the
\* s32 or the s64 (8 bytes) passed.
CheckPositiveAndReturn(value, negative) ==
    IF ~negative THEN [err |-> "none", v |-> value] ELSE Throw("TypeError")

GetBool(data) == VariantGet(data, "Bool")

GetInt(data) ==
    CASE GetType(data) = "Int" -> [err |-> "none", v |-> Get(data)]
      [] GetType(data) = "UInt" -> [err |-> "none", v |-> S32(Get(data))]
      [] OTHER -> Throw("TypeError")

GetUInt(data) ==
    CASE GetType(data) = "UInt" -> [err |-> "none", v |-> Get(data)]
      [] GetType(data) = "Int" ->
             \* the s32 returned converts to the u32 of the return type
             LET Converted(checked) ==
                     IF checked.err # "none" THEN checked
                     ELSE [err |-> "none", v |-> Pair32(checked.v)]
             IN Converted(CheckPositiveAndReturn(Get(data), Get(data) < 0))
      [] OTHER -> Throw("TypeError")

GetFloat(data) == VariantGet(data, "Float")

GetInt64(data) ==
    CASE GetType(data) = "Int" ->
             [err |-> "none",
              v |-> (IF Get(data) < 0 THEN << 255, 255, 255, 255 >> ELSE << 0, 0, 0, 0 >>)
                        \o ToBytes(Get(data), 4, "Big")]
      [] GetType(data) = "UInt" ->
             [err |-> "none", v |-> << 0, 0, 0, 0 >> \o Bytes32(Get(data), "Big")]
      [] GetType(data) = "Int64" -> [err |-> "none", v |-> Get(data)]
      [] OTHER -> Throw("TypeError")

GetUInt64(data) ==
    CASE GetType(data) = "Int" ->
             \* the s32 returned converts to the u64 of the return type
             LET Converted(checked) ==
                     IF checked.err # "none" THEN checked
                     ELSE [err |-> "none",
                           v |-> << 0, 0, 0, 0 >> \o ToBytes(checked.v, 4, "Big")]
             IN Converted(CheckPositiveAndReturn(Get(data), Get(data) < 0))
      [] GetType(data) = "UInt" ->
             [err |-> "none", v |-> << 0, 0, 0, 0 >> \o Bytes32(Get(data), "Big")]
      [] GetType(data) = "UInt64" -> [err |-> "none", v |-> Get(data)]
      [] GetType(data) = "Int64" -> CheckPositiveAndReturn(Get(data), Get(data)[1] >= 128)
      [] OTHER -> Throw("TypeError")

GetDouble(data) == VariantGet(data, "Double")

\* Byml::GetString
BymlGetString(data) == VariantGet(data, "String")

\* ---- documents
\* The most items a container of the documents holds.
MaxItems == 2

\* The values the containers of the documents are filled with.
BymlValues ==
    LET long == << 0, 0, 0, 0, 0, 0, 0, 9 >>
        int == << "Int", 5 >>
    IN { NullNode, << "Bool", TRUE >>, int, << "UInt", << 0, 5 >> >>,
         << "Float", 1065353216 >>,
         << "String", << 97 >> >>, << "String", << 98, 99 >> >>,
         << "Int64", long >>,
         << "Binary", << 1, 2, 3 >> >>,
         << "File", [data |-> << 1, 2, 3, 4, 5 >>, align |-> 16] >>,
         << "Array", << int, << "Int64", long >> >> >>,
         << "Dictionary", << << << 107 >>, << "String", << 97 >> >> >> >> >>,
         << "Hash32", << << 7, int >> >> >>,
         << "Hash64", << << << 0, 0, 0, 1, 0, 0, 0, 2 >>, int >> >> >> }

\* The i-th key of a container of the documents, in ascending order.
BymlKey(type, i) ==
    CASE type = "Dictionary" -> << 106 + i >>
      [] type = "Hash32" -> 300 * i
      [] type = "Hash64" -> << 0, 0, 0, i, 0, 0, 0, 32 + i >>

\* The documents: Null and every container of up to MaxItems values.
BymlDocuments ==
    { NullNode }
    \cup { << "Array", items >> :
              items \in UNION { [1..n -> BymlValues] : n \in 0..MaxItems } }
    \cup { << type, [i \in DOMAIN items |-> << BymlKey(type, i), items[i] >>] >> :
              type \in {"Dictionary", "Hash32", "Hash64"},
              items \in UNION { [1..n -> BymlValues] : n \in 0..MaxItems } }

NoBinary == [err |-> "none", data |-> << >>]

\* ---- the calls
\* d.ToBinary(big_endian, version)
EmitByml ==
    /\ byml_pc = "document"
    /\ byml_binary' = BymlToBinary(byml_doc, byml_args.big_endian, byml_args.version)
    /\ byml_pc' = "written"
    /\ UNCHANGED <<byml_doc, byml_args, byml_parsed, byml_getter, byml_got,
                   yazVars, sarcVars, aampVars>>

\* Byml::FromBinary of the bytes ToBinary returned
ParseByml ==
    /\ byml_pc = "written"
    /\ byml_binary.err = "none"
    /\ byml_parsed' = BymlFromBinary(byml_binary.data)
    /\ byml_pc' = "parsed"
    /\ UNCHANGED <<byml_doc, byml_args, byml_binary, byml_getter, byml_got,
                   yazVars, sarcVars, aampVars>>

\* One of the typed getters called on the node.
CallGetter ==
    /\ byml_pc = "node"
    /\ byml_got' = CASE byml_getter = "GetBool" -> GetBool(byml_doc)
                     [] byml_getter = "GetInt" -> GetInt(byml_doc)
                     [] byml_getter = "GetUInt" -> GetUInt(byml_doc)
                     [] byml_getter = "GetFloat" -> GetFloat(byml_doc)
                     [] byml_getter = "GetInt64" -> GetInt64(byml_doc)
                     [] byml_getter = "GetUInt64" -> GetUInt64(byml_doc)
                     [] byml_getter = "GetDouble" -> GetDouble(byml_doc)
                     [] byml_getter = "GetString" -> BymlGetString(byml_doc)
    /\ byml_pc' = "got"
    /\ UNCHANGED <<byml_doc, byml_args, byml_binary, byml_parsed, byml_getter,
                   yazVars, sarcVars, aampVars>>

BymlIdle ==
    /\ byml_pc = "idle"
    /\ byml_doc = NullNode
    /\ byml_args = [big_endian |-> FALSE, version |-> 2]
    /\ byml_binary = NoBinary
    /\ byml_parsed = Throw("none")
    /\ byml_getter = "none"
    /\ byml_got = Throw("none")

BymlInit ==
    /\ byml_pc = "document"
    /\ byml_doc \in BymlDocuments
    /\ byml_args \in [big_endian : BOOLEAN, version : {2, 7}]
    /\ byml_binary = NoBinary
    /\ byml_parsed = Throw("none")
    /\ byml_getter = "none"
    /\ byml_got = Throw("none")

BymlNext == EmitByml \/ ParseByml

\* Documents for the two string tables: strings of which one is a prefix of
\* another, a key and a string that occur twice, and keys of nested
\* dictionaries that sort before and between the keys of the root.
TableValues ==
    LET a == << "String", << 97 >> >>
    IN { << "Int", 5 >>, a, << "String", << 98 >> >>, << "String", << 98, 99 >> >>,
         << "Dictionary", << << << 97 >>, << "String", << 122 >> >> >>,
                             << << 109 >>, << "Int", 5 >> >> >> >>,
         << "Dictionary", << << << 107 >>, a >> >> >>,
         << "Array", << << "String", << 99 >> >>, a >> >> }

TableDocuments ==
    { << "Array", items >> :
          items \in UNION { [1..n -> TableValues] : n \in 0..MaxItems } }
    \cup { << type, [i \in DOMAIN items |-> << BymlKey(type, i), items[i] >>] >> :
              type \in {"Dictionary", "Hash32", "Hash64"},
              items \in UNION { [1..n -> TableValues] : n \in 0..MaxItems } }

BymlTablesInit ==
    /\ byml_pc = "document"
    /\ byml_doc \in TableDocuments
    /\ byml_args \in [big_endian : BOOLEAN, version : {7}]
    /\ byml_binary = NoBinary
    /\ byml_parsed = Throw("none")
    /\ byml_getter = "none"
    /\ byml_got = Throw("none")

\* Documents with non-inline nodes that occur several times, at one level or
\* at different levels, and with nodes of different types whose bytes are
\* the same.
SharedValues ==
    LET long == << 0, 0, 0, 0, 0, 0, 0, 9 >>
        binary == << "Binary", << 1, 2, 3 >> >>
        array == << "Array", << << "Int64", long >>, binary >> >>
    IN { << "Int64", long >>, << "UInt64", long >>,
         << "Double", << 63, 240, 0, 0, 0, 0, 0, 0 >> >>,
         binary, << "File", [data |-> << 1, 2, 3, 4, 5 >>, align |-> 8] >>,
         array,
         << "Array", << << "Int", 5 >>, array >> >>,
         << "Hash64", << << << 0, 0, 0, 1, 0, 0, 0, 2 >>, << "Int64", long >> >> >> >> }

SharedDocuments ==
    { << "Array", items >> :
          items \in UNION { [1..n -> SharedValues] : n \in 0..MaxItems } }
    \cup { << type, [i \in DOMAIN items |-> << BymlKey(type, i), items[i] >>] >> :
              type \in {"Dictionary", "Hash32", "Hash64"},
              items \in UNION { [1..n -> SharedValues] : n \in 0..MaxItems } }

BymlSharedInit ==
    /\ byml_pc = "document"
    /\ byml_doc \in SharedDocuments
    /\ byml_args \in [big_endian : BOOLEAN, version : {7}]
    /\ byml_binary = NoBinary
    /\ byml_parsed = Throw("none")
    /\ byml_getter = "none"
    /\ byml_got = Throw("none")

\* The inputs of FromBinary: what ToBinary wrote for a few documents, with
\* one byte replaced or with the end cut off.
CorruptBinaries ==
    LET string == << "String", << 97 >> >>
        documents == { << "Array", << string, << "Int64", << 0, 0, 0, 0, 0, 0, 0, 9 >> >> >> >>,
                       << "Dictionary", << << << 107 >>, string >> >> >>,
                       << "Hash32", << << 300, << "Binary", << 1, 2, 3 >> >> >> >> >> }
        written == { BymlToBinary(d, big_endian, 2).data :
                        d \in documents, big_endian \in BOOLEAN }
    IN written
           \cup UNION { { [data EXCEPT ![i] = x] : i \in 1..Len(data), x \in {0, 1, 100} } :
                           data \in written }
           \cup UNION { { SubSeq(data, 1, n) : n \in 0..(Len(data) - 1) } : data \in written }

\* Inputs of FromBinary with offsets that lead back: what ToBinary wrote for
\* documents of nested containers, with one 4-byte cell of the node section
\* replaced by the offset of a 4-byte aligned position of the node section,
\* the position of the container that holds the cell and of its ancestors
\* included.
CyclicBinaries ==
    LET inner == << "Array", << << "Int", 5 >> >> >>
        documents == { << "Array", << inner >> >>,
                       << "Array", << << "Array", << inner >> >> >> >>,
                       << "Dictionary", << << << 107 >>, inner >> >> >>,
                       << "Hash32", << << 300, inner >> >> >> }
        written == { [data |-> BymlToBinary(d, big_endian, 7).data,
                      endian |-> IF big_endian THEN "Big" ELSE "Little"] :
                        d \in documents, big_endian \in BOOLEAN }
        Cells(w) ==
            { i \in Read(w.data, 12, 4, w.endian)..(Len(w.data) - 4) : i % 4 = 0 }
        Replaced(w, cell, offset) ==
            [i \in 1..Len(w.data) |->
                IF i \in (cell + 1)..(cell + 4)
                THEN ToBytes(offset, 4, w.endian)[i - cell] ELSE w.data[i]]
    IN UNION { { Replaced(w, cell, offset) : cell \in Cells(w), offset \in Cells(w) } :
                   w \in written }

BymlCyclicInit ==
    /\ byml_pc = "written"
    /\ byml_doc = NullNode
    /\ byml_args = [big_endian |-> FALSE, version |-> 7]
    /\ byml_binary \in { [err |-> "none", data |-> data] : data \in CyclicBinaries }
    /\ byml_parsed = Throw("none")
    /\ byml_getter = "none"
    /\ byml_got = Throw("none")

BymlParseInit ==
    /\ byml_pc = "written"
    /\ byml_doc = NullNode
    /\ byml_args = [big_endian |-> FALSE, version |-> 2]
    /\ byml_binary \in { [err |-> "none", data |-> data] : data \in CorruptBinaries }
    /\ byml_parsed = Throw("none")
    /\ byml_getter = "none"
    /\ byml_got = Throw("none")

\* The nodes the getters are called on: every type, the 32-bit and 64-bit
\* integers at the ends of their ranges and on both sides of zero.
GetterNodes ==
    LET s32 == { -2147483647 - 1, -1, 0, 1, 5, 2147483647 }
        u32 == { << 0, 0 >>, << 0, 5 >>, << 32767, 65535 >>, << 32768, 0 >>,
                 << 65535, 65535 >> }
        w64 == { << 0, 0, 0, 0, 0, 0, 0, 0 >>, << 0, 0, 0, 0, 0, 0, 0, 9 >>,
                 << 127, 255, 255, 255, 255, 255, 255, 255 >>,
                 << 128, 0, 0, 0, 0, 0, 0, 0 >>,
                 << 255, 255, 255, 255, 255, 255, 255, 255 >> }
    IN BymlValues \cup { << "Bool", FALSE >>, << "Float", 0 >> }
           \cup { << "Int", v >> : v \in s32 } \cup { << "UInt", v >> : v \in u32 }
           \cup { << type, v >> : type \in {"Int64", "UInt64", "Double"}, v \in w64 }

BymlGettersInit ==
    /\ byml_pc = "node"
    /\ byml_doc \in GetterNodes
    /\ byml_getter \in {"GetBool", "GetInt", "GetUInt", "GetFloat", "GetInt64",
                         "GetUInt64", "GetDouble", "GetString"}
    /\ byml_args = [big_endian |-> FALSE, version |-> 2]
    /\ byml_binary = NoBinary
    /\ byml_parsed = Throw("none")
    /\ byml_got = Throw("none")

(***************************************************************************)
(* AAMP                                                                    *)
(* A Name is the pair of the 16-bit halves of its CRC32.  A parameter is   *)
(* [type, v]: v is the characters for the string types, the elements for   *)
(* the buffer types and the 32-bit words of the value for every other type *)
(* (Bool: the word 1 or 0).  A ParameterObject is [params], a              *)
(* ParameterList [objects, lists] and a ParameterIO [objects, lists,       *)
(* version, type], each map being the sequence of its <<name, value>>      *)
(* pairs in insertion order (tsl::ordered_map).                            *)
(***************************************************************************)
\* enum class Parameter::Type: the enumerator of value k is ParameterType[k + 1].
ParameterType ==
    << "Bool", "F32", "Int", "Vec2", "Vec3", "Vec4", "Color", "String32", "String64",
       "Curve1", "Curve2", "Curve3", "Curve4", "BufferInt", "BufferF32", "String256",
       "Quat", "U32", "BufferU32", "BufferBinary", "StringRef" >>

IsStringType(type) == type \in {"String32", "String64", "String256", "StringRef"}

IsBufferType(type) == type \in {"BufferInt", "BufferU32", "BufferF32", "BufferBinary"}

\* sizeof of the value of a parameter type that is neither a string nor a
\* buffer, in 32-bit words.
WordsOf(type) ==
    CASE type \in {"Bool", "F32", "Int", "U32"} -> 1
      [] type = "Vec2" -> 2
      [] type = "Vec3" -> 3
      [] type \in {"Vec4", "Color", "Quat"} -> 4
      [] type = "Curve1" -> 32
      [] type = "Curve2" -> 64
      [] type = "Curve3" -> 96
      [] type = "Curve4" -> 128

\* ParameterIO::ParamRootKey = Name("param_root"), CRC32 0xA4F6CB6C
ParamRootKey == << 42230, 52076 >>

\* Name("DemoAIActionIdx"), CRC32 0xB994C459
DemoAIActionIdx == << 47508, 50265 >>

\* A byte of a structure member the constructor leaves uninitialised.
Indeterminate == 205

\* ---- CompactOffset<T, Factor>
\* T is "U24" (U24<false>, ResParameter::data_rel_offset) or "u16"
\* (util::LeInt<u16>, the offsets of ResParameterObj and ResParameterList).
Factor == 4

\* U24<false>::Set and Get: the three bytes, least significant first
U24Set(v) == << v % 256, (v \div 256) % 256, (v \div 65536) % 256 >>

U24Get(data) == data[3] * 65536 + data[2] * 256 + data[1]

\* CompactOffset::MaxDistance
MaxDistance(T) ==
    IF T = "U24" THEN Factor * 2 ^ 24
    ELSE Factor * 65535         \* std::numeric_limits<u16>::max()

\* raw_value = x / Factor: the conversion of the quotient to T
RawValue(T, quotient) ==
    IF T = "U24" THEN U24Get(U24Set(quotient)) ELSE quotient % 65536

\* CompactOffset::Set
CompactOffsetSet(T, x) ==
    IF x % Factor # 0 \/ x > MaxDistance(T)
    THEN [err |-> "invalid_argument", raw_value |-> 0]
    ELSE [err |-> "none", raw_value |-> RawValue(T, x \div Factor)]

\* CompactOffset::Get
CompactOffsetGet(raw_value) == raw_value * Factor

\* No CompactOffset is looked at.
NoOffset == [pc |-> "idle", T |-> "u16", x |-> 0, raw_value |-> 0, err |-> "none", got |-> 0]

\* How far from 0 and from the two values of MaxDistance the arguments of
\* Set go.
OffsetMargin == 8

\* offset.Set(x)
SetOffset ==
    /\ compact_offset.pc = "argument"
    /\ LET set == CompactOffsetSet(compact_offset.T, compact_offset.x)
       IN compact_offset' = [compact_offset EXCEPT
                                !.pc = IF set.err = "none" THEN "stored" ELSE "thrown",
                                !.err = set.err,
                                !.raw_value = set.raw_value]
    /\ UNCHANGED <<aamp_pc, aamp_pio, aamp_binary, aamp_parsed, nameTableVars, yazVars,
                   sarcVars, bymlVars>>

\* offset.Get()
GetOffset ==
    /\ compact_offset.pc = "stored"
    /\ compact_offset' = [compact_offset EXCEPT
                             !.pc = "read", !.got = CompactOffsetGet(compact_offset.raw_value)]
    /\ UNCHANGED <<aamp_pc, aamp_pio, aamp_binary, aamp_parsed, nameTableVars, yazVars,
                   sarcVars, bymlVars>>

\* A default-constructed CompactOffset of either type and the argument of
\* Set: a distance around 0, around the 16-bit MaxDistance or around the
\* 24-bit one.
CompactOffsetInit ==
    /\ \E T \in {"U24", "u16"}, limit \in {0, MaxDistance("u16"), MaxDistance("U24")},
          d \in (0 - OffsetMargin)..OffsetMargin :
           /\ limit + d >= 0
           /\ compact_offset = [NoOffset EXCEPT !.pc = "argument", !.T = T, !.x = limit + d]
    /\ name_table = [names |-> {}, owned_names |-> {}, numbered_names |-> << >>]
    /\ callers = << >>
    /\ guessed = {}

CompactOffsetNext == SetOffset \/ GetOffset

\* ---- writer
\* The context is [writer, num_lists, num_objects, num_parameters, offsets,
\* string_offsets].  The structures offsets is keyed by (addresses in the
\* source) are named by [kind, path]: the path of a list is the indices of
\* the child lists leading to it, that of an object its list's path and its
\* index, that of a parameter its object's path and its index.
OffsetOf(ctx, kind, path) ==
    ctx.offsets[CHOOSE i \in 1..Len(ctx.offsets) :
                    ctx.offsets[i][1] = [kind |-> kind, path |-> path]][2]

\* WriteContext::WriteList, WriteObject and WriteParameter: the structure is
\* recorded in offsets, counted and written with its offset members
\* uninitialised.
WriteStruct(ctx, kind, path, bytes) ==
    [ctx EXCEPT !.offsets = Append(@, << [kind |-> kind, path |-> path], ctx.writer.off >>),
                !.writer = WriteBytes(@, bytes),
                !.num_lists = @ + (IF kind = "list" THEN 1 ELSE 0),
                !.num_objects = @ + (IF kind = "object" THEN 1 ELSE 0),
                !.num_parameters = @ + (IF kind = "parameter" THEN 1 ELSE 0)]

WriteList(ctx, path, name, list) ==
    WriteStruct(ctx, "list", path,
                Bytes32(name, "Little") \o << Indeterminate, Indeterminate >>
                    \o ToBytes(Len(list.lists), 2, "Little")
                    \o << Indeterminate, Indeterminate >>
                    \o ToBytes(Len(list.objects), 2, "Little"))

\* WriteContext::WriteOffsetForParent
WriteOffsetForParent(ctx, kind, path, offset_in_parent_struct) ==
    LET parent_offset == OffsetOf(ctx, kind, path)
    IN [ctx EXCEPT !.writer =
           RunAt(@, parent_offset + offset_in_parent_struct,
                 ToBytes((@.off - parent_offset) \div 4, 2, "Little"))]

\* WriteContext::WriteLists, the write lambda on the list at path
\* (a cursor is never negative: the second test of the loops of the writer
\* has each write evaluated before the next one)
RECURSIVE WriteLists(_, _, _)
WriteLists(ctx, list, path) ==
    LET RECURSIVE Structs(_, _), Children(_, _)
        Structs(c, i) ==
            IF i > Len(list.lists) \/ c.writer.off < 0 THEN c
            ELSE Structs(WriteList(c, path \o << i >>, list.lists[i][1], list.lists[i][2]),
                         i + 1)
        Children(c, i) ==
            IF i > Len(list.lists) \/ c.writer.off < 0 THEN c
            ELSE Children(WriteLists(c, list.lists[i][2], path \o << i >>), i + 1)
    IN Children(Structs(WriteOffsetForParent(ctx, "list", path, 4), 1), 1)

\* WriteContext::WriteObjects
RECURSIVE WriteObjects(_, _, _)
WriteObjects(ctx, list, path) ==
    LET RECURSIVE Structs(_, _), Children(_, _)
        \* WriteObject
        Structs(c, k) ==
            IF k > Len(list.objects) \/ c.writer.off < 0 THEN c
            ELSE Structs(WriteStruct(c, "object", path \o << k >>,
                                     Bytes32(list.objects[k][1], "Little")
                                         \o << Indeterminate, Indeterminate >>
                                         \o ToBytes(Len(list.objects[k][2].params), 2,
                                                    "Little")),
                         k + 1)
        Children(c, i) ==
            IF i > Len(list.lists) \/ c.writer.off < 0 THEN c
            ELSE Children(WriteObjects(c, list.lists[i][2], path \o << i >>), i + 1)
    IN Children(Structs(WriteOffsetForParent(ctx, "list", path, 8), 1), 1)

\* do_collect without the descent into the child lists: the parameters of
\* the objects of the list itself only.
CollectParametersMutOwnObjects(list, path, process_top_objects_first) ==
    LET RECURSIVE Objects(_)
        Objects(k) ==
            IF k > Len(list.objects) THEN << >>
            ELSE [j \in 1..Len(list.objects[k][2].params) |->
                     << path \o << k, j >>, list.objects[k][2].params[j][2] >>]
                     \o Objects(k + 1)
    IN Objects(1)

\* WriteContext::CollectParameters, the do_collect lambda: the parameters of
\* the list at path, as <<path, parameter>>, in the order they are queued.
RECURSIVE CollectParameters(_, _, _)
CollectParameters(list, path, process_top_objects_first) ==
    LET num_objects == Len(list.objects)
        process_one_object(k) ==
            [j \in 1..Len(list.objects[k][2].params) |->
                << path \o << k, j >>, list.objects[k][2].params[j][2] >>]
        RECURSIVE Objects(_, _), Lists(_, _)
        \* the objects from the from-th to the to-th
        Objects(from, to) ==
            IF from > to THEN << >> ELSE process_one_object(from) \o Objects(from + 1, to)
        is_botw_aiprog == num_objects > 0 /\ list.objects[1][1] = DemoAIActionIdx
        top == IF process_top_objects_first /\ ~is_botw_aiprog
               THEN (IF num_objects < 7 THEN num_objects ELSE 7)
               ELSE 0
        \* the loop over the child lists, at list i with object_it objects done
        Lists(i, object_it) ==
            IF i >= Len(list.lists) THEN Objects(object_it + 1, num_objects)
            ELSE LET one == ~is_botw_aiprog /\ i % 2 = 0 /\ object_it < num_objects
                 IN (IF one THEN process_one_object(object_it + 1) ELSE << >>)
                    \o CollectParameters(list.lists[i + 1][2], path \o << i + 1 >>, FALSE)
                    \o Lists(i + 1, IF one THEN object_it + 1 ELSE object_it)
    IN Objects(1, top) \o Lists(0, top)

\* parameters_to_write and string_parameters_to_write: process_one_object
\* appends a parameter to the one or the other by its type.
parameters_to_write(collected) ==
    SelectSeq(collected, LAMBDA entry : ~IsStringType(entry[2].type))

string_parameters_to_write(collected) ==
    SelectSeq(collected, LAMBDA entry : IsStringType(entry[2].type))

\* WriteContext::WriteParameters
RECURSIVE WriteParameters(_, _, _)
WriteParameters(ctx, list, path) ==
    LET RECURSIVE Children(_, _), Objects(_, _), Params(_, _, _)
        Children(c, i) ==
            IF i > Len(list.lists) \/ c.writer.off < 0 THEN c
            ELSE Children(WriteParameters(c, list.lists[i][2], path \o << i >>), i + 1)
        \* WriteParameter
        Params(c, k, j) ==
            IF j > Len(list.objects[k][2].params) \/ c.writer.off < 0 THEN c
            ELSE LET param == list.objects[k][2].params[j]
                     type == CHOOSE t \in 1..Len(ParameterType) :
                                 ParameterType[t] = param[2].type
                 IN Params(WriteStruct(c, "parameter", path \o << k, j >>,
                                       Bytes32(param[1], "Little")
                                           \o << Indeterminate, Indeterminate, Indeterminate,
                                                 type - 1 >>),
                           k, j + 1)
        Objects(c, k) ==
            IF k > Len(list.objects) \/ c.writer.off < 0 THEN c
            ELSE Objects(Params(WriteOffsetForParent(c, "object", path \o << k >>, 4), k, 1),
                         k + 1)
    IN Objects(Children(ctx, 1), 1)

\* The bytes WriteParameterData writes to its temporary buffer.
ParameterData(param) ==
    LET word(x) == ToBytes(x, 4, "Little")
        RECURSIVE Words(_)
        Words(v) == IF v = << >> THEN << >> ELSE word(Head(v)) \o Words(Tail(v))
    IN CASE param.type = "BufferBinary" -> word(Len(param.v)) \o param.v
         [] IsBufferType(param.type) -> word(Len(param.v)) \o Words(param.v)
         [] OTHER -> Words(param.v)

\* WriteContext::WriteParameterData
WriteParameterData(ctx, path, param, lookup_start_offset) ==
    LET temp == ParameterData(param)
        buffer == ctx.writer.buf
        parent_offset == OffsetOf(ctx, "parameter", path)
        matches == { offset \in lookup_start_offset..Len(buffer) :
                        /\ (offset - lookup_start_offset) % 4 = 0
                        /\ offset + Len(temp) <= Len(buffer)
                        /\ offset - parent_offset < 67108864
                        /\ SubSeq(buffer, offset + 1, offset + Len(temp)) = temp }
        found == matches # {}
        data_offset ==
            IF found THEN CHOOSE offset \in matches : \A o \in matches : offset <= o
            ELSE ctx.writer.off + (IF IsBufferType(param.type) THEN 4 ELSE 0)
        patched == RunAt(ctx.writer, parent_offset + 4,
                         ToBytes((data_offset - parent_offset) \div 4, 3, "Little"))
    IN [ctx EXCEPT !.writer = IF found THEN patched
                              ELSE WriterAlignUp(WriteBytes(patched, temp), 4)]

\* WriteContext::WriteString
WriteString(ctx, path, param) ==
    LET parent_offset == OffsetOf(ctx, "parameter", path)
        known == { i \in 1..Len(ctx.string_offsets) : ctx.string_offsets[i][1] = param.v }
        offset == IF known = {} THEN ctx.writer.off
                  ELSE ctx.string_offsets[CHOOSE i \in known : TRUE][2]
        patched == RunAt(ctx.writer, parent_offset + 4,
                         ToBytes((offset - parent_offset) \div 4, 3, "Little"))
    IN IF known # {} THEN [ctx EXCEPT !.writer = patched]
       ELSE [ctx EXCEPT !.writer = WriterAlignUp(WriteBytes(patched, param.v \o << 0 >>), 4),
                        !.string_offsets = Append(@, << param.v, offset >>)]

\* ParameterIO::ToBinary
ParameterIOToBinary(pio) ==
    LET word(x) == ToBytes(x, 4, "Little")
        type == WriterAlignUp(WriteBytes([buf |-> << >>, off |-> 48], pio.type \o << 0 >>), 4)
        offset_to_pio == type.off
        ctx == [writer |-> type, num_lists |-> 0, num_objects |-> 0, num_parameters |-> 0,
                offsets |-> << >>, string_offsets |-> << >>]
        collected == CollectParameters(pio, << >>, TRUE)
        structs ==
            WriteParameters(
                WriteObjects(WriteLists(WriteList(ctx, << >>, ParamRootKey, pio), pio, << >>),
                             pio, << >>),
                pio, << >>)
        data_section_begin == structs.writer.off
        RECURSIVE WriteDataSection(_, _), WriteStringSection(_, _)
        WriteDataSection(c, n) ==
            IF n > Len(collected) \/ c.writer.off < 0
            THEN [c EXCEPT !.writer = WriterAlignUp(@, 4)]
            ELSE WriteDataSection(IF IsStringType(collected[n][2].type) THEN c
                                  ELSE WriteParameterData(c, collected[n][1], collected[n][2],
                                                          data_section_begin),
                                  n + 1)
        WriteStringSection(c, n) ==
            IF n > Len(collected) \/ c.writer.off < 0
            THEN [c EXCEPT !.writer = WriterAlignUp(@, 4)]
            ELSE WriteStringSection(IF IsStringType(collected[n][2].type)
                                    THEN WriteString(c, collected[n][1], collected[n][2])
                                    ELSE c,
                                    n + 1)
        data == WriteDataSection(structs, 1)
        string_section_begin == data.writer.off
        strings == WriteStringSection(data, 1)
        unk_section_begin == strings.writer.off
        \* AlignUp(4); GrowBuffer()
        grown == WriteBytes(Seek(strings.writer, Len(strings.writer.buf)),
                            [i \in 1..(AlignUp(unk_section_begin, 4) - Len(strings.writer.buf))
                                |-> 0])
        header == << 65, 65, 77, 80 >> \o word(2) \o word(3) \o word(grown.off)
                      \o word(pio.version) \o word(offset_to_pio - 48)
                      \o word(strings.num_lists) \o word(strings.num_objects)
                      \o word(strings.num_parameters)
                      \o word(string_section_begin - data_section_begin)
                      \o word(unk_section_begin - string_section_begin) \o word(0)
    IN WriteBytes(Seek(grown, 0), header).buf

\* ---- parser
\* A parse result is [err, name, v]: the exception thrown ("none" if none)
\* and the pair returned.
\* Parser::ParseParameter, with ParseBuffer
ParseParameter(data, offset) ==
    LET crc32 == Read32(data, offset, "Little")
        data_offset == offset + 4 * Read(data, offset + 4, 3, "Little")
        byte == Read(data, offset + 7, 1, "Little")
        type == IF byte < Len(ParameterType) THEN ParameterType[byte + 1] ELSE "Unknown"
        Value(v) == [err |-> "none", name |-> crc32, v |-> [type |-> type, v |-> v]]
        Failed(e) == [err |-> e, name |-> crc32, v |-> << >>]
        string == ReadString(data, data_offset)
        max_len == CASE type = "String32" -> 32 [] type = "String64" -> 64
                     [] type = "String256" -> 256 [] OTHER -> Len(string)
        size == Read(data, data_offset - 4, 4, "Little")
        width == IF type = "BufferBinary" THEN 1 ELSE 4
    IN IF offset + 8 > Len(data) THEN Failed("bad_optional_access")
       ELSE IF type = "Unknown" THEN Failed("InvalidData")
       ELSE IF IsStringType(type)
       THEN IF data_offset > Len(data) THEN Failed("out_of_range")
            ELSE Value(IF Len(string) > max_len THEN SubSeq(string, 1, max_len) ELSE string)
       ELSE IF IsBufferType(type)
       THEN IF data_offset < 4 \/ size = Nullopt
               \/ size > (Len(data) - data_offset) \div width
            THEN Failed("bad_optional_access")
            ELSE Value([i \in 1..size |-> Read(data, data_offset + width * (i - 1), width,
                                               "Little")])
       ELSE IF data_offset + 4 * WordsOf(type) > Len(data) THEN Failed("bad_optional_access")
       ELSE IF type = "Bool"
       THEN Value(<< IF Read(data, data_offset, 4, "Little") # 0 THEN 1 ELSE 0 >>)
       ELSE Value([i \in 1..WordsOf(type) |-> Read(data, data_offset + 4 * (i - 1), 4,
                                                   "Little")])

\* tsl::ordered_map::emplace: appended unless the name is already there.
EmplaceBack(map, name, value) ==
    IF \E i \in 1..Len(map) : map[i][1] = name THEN map ELSE Append(map, << name, value >>)

\* Parser::ParseObject
ParseObject(data, offset) ==
    LET offset_to_params == offset + 4 * Read(data, offset + 4, 2, "Little")
        num_parameters == Read(data, offset + 6, 2, "Little")
        RECURSIVE Params(_, _)
        Params(i, params) ==
            IF i >= num_parameters
            THEN [err |-> "none", name |-> Read32(data, offset, "Little"),
                  v |-> [params |-> params]]
            ELSE LET Parsed(param) ==
                         IF param.err # "none" THEN param
                         ELSE Params(i + 1, EmplaceBack(params, param.name, param.v))
                 IN Parsed(ParseParameter(data, offset_to_params + 8 * i))
    IN IF offset + 8 > Len(data)
       THEN [err |-> "bad_optional_access", name |-> << >>, v |-> << >>]
       ELSE Params(0, << >>)

\* Parser::ParseList; depth is the number of lists above.
RECURSIVE ParseList(_, _, _)
ParseList(data, offset, depth) ==
    LET offset_to_lists == offset + 4 * Read(data, offset + 4, 2, "Little")
        num_lists == Read(data, offset + 6, 2, "Little")
        offset_to_objects == offset + 4 * Read(data, offset + 8, 2, "Little")
        num_objects == Read(data, offset + 10, 2, "Little")
        RECURSIVE Lists(_, _), Objects(_, _, _)
        Objects(i, lists, objects) ==
            IF i >= num_objects
            THEN [err |-> "none", name |-> Read32(data, offset, "Little"),
                  v |-> [objects |-> objects, lists |-> lists]]
            ELSE LET Parsed(object) ==
                         IF object.err # "none" THEN object
                         ELSE Objects(i + 1, lists,
                                      EmplaceBack(objects, object.name, object.v))
                 IN Parsed(ParseObject(data, offset_to_objects + 8 * i))
        Lists(i, lists) ==
            IF i >= num_lists THEN Objects(0, lists, << >>)
            ELSE LET ParsedList(list) ==
                         IF list.err # "none" THEN list
                         ELSE Lists(i + 1, EmplaceBack(lists, list.name, list.v))
                 IN ParsedList(ParseList(data, offset_to_lists + 12 * i, depth + 1))
    IN IF depth > MaxParseDepth
       THEN [err |-> "unbounded_recursion", name |-> << >>, v |-> << >>]
       ELSE IF offset + 12 > Len(data)
       THEN [err |-> "bad_optional_access", name |-> << >>, v |-> << >>]
       ELSE Lists(0, << >>)

\* A default-constructed ParameterIO.
NoParameterIO == [objects |-> << >>, lists |-> << >>, version |-> 0, type |-> << >>]

\* ParameterIO::FromBinary: Parser::Parser, then Parser::Parse; [err, v].
ParameterIOFromBinary(data) ==
    LET flags == Read(data, 8, 4, "Little")
        Failed(e) == [err |-> e, v |-> NoParameterIO]
        \* Parser::Parse on the root list ParseList returned
        Parse(root) ==
            IF root.err # "none" THEN Failed(root.err)
            ELSE IF root.name # ParamRootKey THEN Failed("InvalidData")
            ELSE [err |-> "none",
                  v |-> [objects |-> root.v.objects, lists |-> root.v.lists,
                         version |-> Read(data, 16, 4, "Little"),
                         type |-> ReadString(data, 48)]]
    IN IF Len(data) < 48 \/ SubSeq(data, 1, 4) # << 65, 65, 77, 80 >>
          \/ Read(data, 4, 4, "Little") # 2 \/ flags % 2 = 0 \/ (flags \div 2) % 2 = 0
       THEN Failed("InvalidData")
       ELSE Parse(ParseList(data, 48 + Read(data, 20, 4, "Little"), 0))

\* ---- parameter archives
\* The most parameters an object of the archives holds.
MaxParams == 2

\* The parameters the objects of the archives are filled with.
AampParameters ==
    { [type |-> "Bool", v |-> << 1 >>], [type |-> "Int", v |-> << 2 >>],
      [type |-> "U32", v |-> << 2 >>], [type |-> "F32", v |-> << 1065353216 >>],
      [type |-> "Vec2", v |-> << 1, 2 >>],
      [type |-> "BufferInt", v |-> << 1, 2, 3 >>], [type |-> "BufferInt", v |-> << 2 >>],
      [type |-> "BufferU32", v |-> << 1, 2, 3 >>],
      [type |-> "BufferBinary", v |-> << 1, 2, 3, 4, 5 >>],
      [type |-> "String32", v |-> << 97, 98 >>], [type |-> "StringRef", v |-> << 97, 98 >>],
      [type |-> "StringRef", v |-> << 99 >>] }

\* The archives: a root list with one object of up to MaxParams parameters,
\* with two objects of one parameter, or with an object and a child list
\* holding an object.
ParameterIOs ==
    LET Object(params) == [params |-> [j \in DOMAIN params |-> << << 1, j >>, params[j] >>]]
        Objects(objects) == [k \in DOMAIN objects |-> << << 2, k >>, Object(objects[k]) >>]
        one == [1..1 -> AampParameters]
        lists == { [objects |-> Objects(<< params >>), lists |-> << >>] :
                      params \in UNION { [1..n -> AampParameters] : n \in 1..MaxParams } }
                 \cup { [objects |-> Objects(<< p, q >>), lists |-> << >>] :
                           p \in one, q \in one }
                 \cup { [objects |-> Objects(<< p >>),
                         lists |-> << << << 3, 1 >>,
                                         [objects |-> Objects(<< q >>), lists |-> << >>] >> >>] :
                           p \in one, q \in one }
    IN { [objects |-> l.objects, lists |-> l.lists, version |-> h[1], type |-> h[2]] :
            l \in lists, h \in { << 0, << 120, 109, 108 >> >>, << 7, << 97 >> >> } }

\* The most child lists a list of the ordered archives holds.
MaxLists == 3

\* The list of a shape [objects, lists, marker]: as many objects as the
\* shape says, the first named DemoAIActionIdx if it has the marker, and one
\* child list per shape of lists.  Every object holds two Int parameters
\* whose values no other parameter of the archive has, and every second
\* object a string between them; code numbers the list within the archive.
RECURSIVE OrderedList(_, _)
OrderedList(shape, code) ==
    LET int(v) == [type |-> "Int", v |-> << v >>]
        id(k) == 2 * (16 * code + k)
        params(k) ==
            IF k % 2 = 0
            THEN << << << 1, 1 >>, int(id(k)) >>,
                    << << 1, 2 >>, [type |-> "StringRef", v |-> << 97, 48 + k >>] >>,
                    << << 1, 3 >>, int(id(k) + 1) >> >>
            ELSE << << << 1, 1 >>, int(id(k)) >>, << << 1, 3 >>, int(id(k) + 1) >> >>
    IN [objects |-> [k \in 1..shape.objects |->
                        << IF k = 1 /\ shape.marker THEN DemoAIActionIdx ELSE << 2, k >>,
                           [params |-> params(k)] >>],
        lists |-> [i \in 1..Len(shape.lists) |->
                      << << 3, i >>, OrderedList(shape.lists[i], 4 * code + i) >>]]

\* The archives whose order of parameters is looked at: a root list of 0, 2,
\* 7 or 9 objects with up to MaxLists child lists, a child list having 1 or 3
\* objects, or 3 objects and MaxLists child lists of its own, or the marker;
\* the root has the marker or not.
OrderedArchives ==
    LET leaf == [objects |-> 1, lists |-> << >>, marker |-> FALSE]
        children == { leaf,
                      [objects |-> 3, lists |-> << >>, marker |-> FALSE],
                      [objects |-> 3, lists |-> [i \in 1..MaxLists |-> leaf],
                       marker |-> FALSE],
                      [objects |-> 2, lists |-> << leaf >>, marker |-> TRUE] }
        roots == { [objects |-> n, lists |-> lists, marker |-> marker] :
                      n \in {0, 2, 7, 9}, marker \in BOOLEAN,
                      lists \in UNION { [1..m -> children] : m \in 0..MaxLists } }
    IN { [objects |-> OrderedList(root, 0).objects, lists |-> OrderedList(root, 0).lists,
          version |-> 0, type |-> << 120, 109, 108 >>] :
            root \in { r \in roots : r.marker => r.objects > 0 } }

AampOrderedInit ==
    /\ aamp_pc = "archive"
    /\ aamp_pio \in OrderedArchives
    /\ aamp_binary = << >>
    /\ aamp_parsed = [err |-> "none", v |-> NoParameterIO]
    /\ name_table = [names |-> {}, owned_names |-> {}, numbered_names |-> << >>]
    /\ callers = << >>
    /\ guessed = {}
    /\ compact_offset = NoOffset

\* ---- the calls
\* p.ToBinary()
EmitParameterIO ==
    /\ aamp_pc = "archive"
    /\ aamp_binary' = ParameterIOToBinary(aamp_pio)
    /\ aamp_pc' = "written"
    /\ UNCHANGED <<aamp_pio, aamp_parsed, nameTableVars, offsetVars, yazVars, sarcVars, bymlVars>>

\* ParameterIO::FromBinary of the bytes ToBinary returned
ParseParameterIO ==
    /\ aamp_pc = "written"
    /\ aamp_parsed' = ParameterIOFromBinary(aamp_binary)
    /\ aamp_pc' = "parsed"
    /\ UNCHANGED <<aamp_pio, aamp_binary, nameTableVars, offsetVars, yazVars, sarcVars, bymlVars>>

AampIdle ==
    /\ aamp_pc = "idle"
    /\ aamp_pio = NoParameterIO
    /\ aamp_binary = << >>
    /\ aamp_parsed = [err |-> "none", v |-> NoParameterIO]
    /\ name_table = [names |-> {}, owned_names |-> {}, numbered_names |-> << >>]
    /\ callers = << >>
    /\ guessed = {}
    /\ compact_offset = NoOffset

AampInit ==
    /\ aamp_pc = "archive"
    /\ aamp_pio \in ParameterIOs
    /\ aamp_binary = << >>
    /\ aamp_parsed = [err |-> "none", v |-> NoParameterIO]
    /\ name_table = [names |-> {}, owned_names |-> {}, numbered_names |-> << >>]
    /\ callers = << >>
    /\ guessed = {}
    /\ compact_offset = NoOffset

AampNext == EmitParameterIO \/ ParseParameterIO

(***************************************************************************)
(* aamp::NameTable                                                         *)
(* A name is its characters; names and owned_names (absl::flat_hash_map)   *)
(* are sets of <<hash, name>> pairs with one pair per hash, a hash being   *)
(* the pair of the 16-bit halves of the CRC32.  A std::optional is the     *)
(* sequence of its value, << >> being std::nullopt.                        *)
(***************************************************************************)
\* a ^ b on 16-bit operands
RECURSIVE Xor(_, _)
Xor(a, b) ==
    IF a = 0 THEN b
    ELSE IF b = 0 THEN a
    ELSE 2 * Xor(a \div 2, b \div 2) + ((a + b) % 2)

\* util::crc32
Crc32(data) ==
    LET RECURSIVE Bits(_, _), Bytes(_, _)
        \* the loop over j (the second test, never true, has crc evaluated
        \* at every iteration)
        Bits(crc, j) ==
            IF j = 8 \/ crc[1] < 0 THEN crc
            ELSE LET hi == crc[1] \div 2
                     lo == crc[2] \div 2 + 32768 * (crc[1] % 2)
                 IN Bits(IF crc[2] % 2 = 1 THEN << Xor(hi, 60856), Xor(lo, 33568) >>
                         ELSE << hi, lo >>,
                         j + 1)
        \* the loop over i
        Bytes(crc, i) ==
            IF i > Len(data) \/ crc[1] < 0 THEN crc
            ELSE Bytes(Bits(<< crc[1], Xor(crc[2], data[i]) >>, 0), i + 1)
        Not(crc) == << 65535 - crc[1], 65535 - crc[2] >>
    IN Not(Bytes(<< 65535, 65535 >>, 1))

\* absl::flat_hash_map::find: the name mapped to the hash, if any
Find(map, hash) ==
    IF \E pair \in map : pair[1] = hash
    THEN << (CHOOSE pair \in map : pair[1] = hash)[2] >>
    ELSE << >>

\* absl::flat_hash_map::emplace: nothing is inserted when the hash is mapped.
MapEmplace(map, hash, name) ==
    IF \E pair \in map : pair[1] = hash THEN map ELSE map \cup { << hash, name >> }

\* absl::StrFormat of %d, %02d and %03d for a value that is not negative
FormatInt(value, width) ==
    LET RECURSIVE Digits(_)
        Digits(n) == IF n < 10 THEN << 48 + n >>
                     ELSE Digits(n \div 10) \o << 48 + (n % 10) >>
        digits == Digits(value)
    IN [k \in 1..(width - Len(digits)) |-> 48] \o digits

\* absl::EndsWith
EndsWith(text, suffix) ==
    /\ Len(text) >= Len(suffix)
    /\ SubSeq(text, Len(text) - Len(suffix) + 1, Len(text)) = suffix

\* The first sequence of candidates[1], candidates[2], ... whose CRC32 is the
\* hash, if any.
FirstMatch(candidates, hash) ==
    LET RECURSIVE Test(_)
        Test(k) == IF k > Len(candidates) THEN << >>
                   ELSE IF Crc32(candidates[k]) = hash THEN << candidates[k] >>
                   ELSE Test(k + 1)
    IN Test(1)

\* The guesses of NameTable::GetName, once hash is in neither map: the
\* candidate that AddName is called with, if any.
GuessName(table, hash, index, parent_name_hash) ==
    LET \* the std::array formats of test_names, as <<separator, width>>
        formats == << << << >>, 1 >>, << << 95 >>, 1 >>, << << >>, 2 >>, << << 95 >>, 2 >>,
                      << << >>, 3 >>, << << 95 >>, 3 >> >>
        test_names(prefix) ==
            FirstMatch([k \in 1..12 |->
                           prefix \o formats[((k - 1) % 6) + 1][1]
                               \o FormatInt(index + (k - 1) \div 6,
                                            formats[((k - 1) % 6) + 1][2])],
                       hash)
        parent_name == Find(table.names, parent_name_hash)
        suffixes == << << 115 >>, << 101, 115 >>, << 76, 105, 115, 116 >> >>
        RECURSIVE Suffixes(_)
        Suffixes(k) ==
            IF k > Len(suffixes) THEN << >>
            ELSE IF ~EndsWith(parent_name[1], suffixes[k]) THEN Suffixes(k + 1)
            ELSE LET Matched(match) == IF match # << >> THEN match ELSE Suffixes(k + 1)
                 IN Matched(test_names(SubSeq(parent_name[1], 1,
                                              Len(parent_name[1]) - Len(suffixes[k]))))
        \* "Children"
        Children(match) ==
            IF match # << >> THEN match
            ELSE LET Matched(children) == IF children # << >> THEN children
                                          ELSE Suffixes(1)
                 IN Matched(test_names(<< 67, 104, 105, 108, 100, 114, 101, 110 >>))
        from_parent == IF parent_name = << >> THEN << >>
                       ELSE Children(test_names(parent_name[1]))
        \* absl::ParsedFormat<'d'>::New(name) and absl::StrFormat: a name
        \* without a %d conversion is no format.
        Conversion(name) == { k \in 1..(Len(name) - 1) : name[k] = 37 /\ name[k + 1] = 100 }
        Numbered(name) ==
            IF Conversion(name) = {} THEN << >>
            ELSE LET at == CHOOSE k \in Conversion(name) : \A l \in Conversion(name) : k <= l
                 IN [i \in 1..(index + 2) |->
                        SubSeq(name, 1, at - 1) \o FormatInt(i - 1, 1)
                            \o SubSeq(name, at + 2, Len(name))]
        RECURSIVE LastResort(_)
        LastResort(k) ==
            IF k > Len(table.numbered_names) THEN << >>
            ELSE LET Matched(match) == IF match # << >> THEN match ELSE LastResort(k + 1)
                 IN Matched(FirstMatch(Numbered(table.numbered_names[k]), hash))
    IN IF from_parent # << >> THEN from_parent ELSE LastResort(1)

\* ---- the calls on a table
\* A thread that is not in a call.
NoCall ==
    [pc |-> "idle", hash |-> << 0, 0 >>, index |-> 0, parent_name_hash |-> << 0, 0 >>,
     candidate |-> << >>, result |-> << >>, raced |-> FALSE]

\* The threads other than t whose access to owned_names is in progress and
\* conflicts with an access of t that writes (write = TRUE) or reads it.
Conflicting(t, write) ==
    { u \in DOMAIN callers \ {t} :
         \/ callers[u].pc = "emplacing"
         \/ write /\ callers[u].pc = "reading_owned" }

\* callers once t has started an access of owned_names: an access that
\* overlaps a conflicting one of another thread is a data race for both.
Access(t, pc, write) ==
    [u \in DOMAIN callers |->
        IF u = t THEN [callers[t] EXCEPT !.pc = pc,
                                         !.raced = @ \/ Conflicting(t, write) # {}]
        ELSE IF u \in Conflicting(t, write) THEN [callers[u] EXCEPT !.raced = TRUE]
        ELSE callers[u]]

\* The arguments GetName is called with.
MaxIndex == 1

GetNameHashes ==
    { Crc32(<< 112, 108, 117, 109, 108, 101, 115, 115 >>),          \* plumless
      Crc32(<< 112, 108, 117, 109, 108, 101, 115, 115, 48 >>),      \* plumless0
      Crc32(<< 112, 108, 117, 109, 108, 101, 115, 95, 49 >>),       \* plumles_1
      Crc32(<< 78, 49 >>) }                                         \* N1

ParentHashes == { Crc32(<< 112, 108, 117, 109, 108, 101, 115, 115 >>), << 0, 0 >> }

\* table.GetName(hash, index, parent_name_hash) is called by a thread
GetNameCall ==
    \E t \in DOMAIN callers, hash \in GetNameHashes, index \in 0..MaxIndex,
       parent_name_hash \in ParentHashes :
        /\ callers[t].pc \in {"idle", "returned"}
        /\ callers' = [callers EXCEPT ![t] =
               [NoCall EXCEPT !.pc = "names", !.hash = hash, !.index = index,
                              !.parent_name_hash = parent_name_hash]]
        /\ UNCHANGED <<name_table, guessed, offsetVars, aamp_pc, aamp_pio, aamp_binary,
                       aamp_parsed,
                       yazVars, sarcVars, bymlVars>>

\* names.find(hash)
FindInNames ==
    \E t \in DOMAIN callers :
        /\ callers[t].pc = "names"
        /\ LET it == Find(name_table.names, callers[t].hash)
           IN callers' = [callers EXCEPT ![t] =
                  IF it # << >> THEN [@ EXCEPT !.pc = "returned", !.result = it]
                  ELSE [@ EXCEPT !.pc = "owned"]]
        /\ UNCHANGED <<name_table, guessed, offsetVars, aamp_pc, aamp_pio, aamp_binary,
                       aamp_parsed,
                       yazVars, sarcVars, bymlVars>>

\* owned_names.find(hash) starts reading the map
FindInOwnedBegin ==
    \E t \in DOMAIN callers :
        /\ callers[t].pc = "owned"
        /\ callers' = Access(t, "reading_owned", FALSE)
        /\ UNCHANGED <<name_table, guessed, offsetVars, aamp_pc, aamp_pio, aamp_binary,
                       aamp_parsed,
                       yazVars, sarcVars, bymlVars>>

\* owned_names.find(hash) is done.  A find that raced with an emplace of
\* another thread has undefined behaviour: it finds any name of the map,
\* finds nothing, or the call crashes.
FindInOwnedEnd ==
    \E t \in DOMAIN callers :
        /\ callers[t].pc = "reading_owned"
        /\ LET it == Find(name_table.owned_names, callers[t].hash)
               Found(name) == [callers EXCEPT ![t] = [@ EXCEPT !.pc = "returned",
                                                              !.result = << name >>]]
               Missed == [callers EXCEPT ![t] = [@ EXCEPT !.pc = "guess"]]
           IN IF callers[t].raced
              THEN \/ \E pair \in name_table.owned_names : callers' = Found(pair[2])
                   \/ callers' = Missed
                   \/ callers' = [callers EXCEPT ![t] = [@ EXCEPT !.pc = "crashed"]]
              ELSE callers' = (IF it # << >> THEN Found(it[1]) ELSE Missed)
        /\ UNCHANGED <<name_table, guessed, offsetVars, aamp_pc, aamp_pio, aamp_binary,
                       aamp_parsed,
                       yazVars, sarcVars, bymlVars>>

\* the guesses from the parent name and from the numbered names
Guess ==
    \E t \in DOMAIN callers :
        /\ callers[t].pc = "guess"
        /\ LET Guessed(candidate) ==
                   [callers EXCEPT ![t] =
                       IF candidate = << >> THEN [@ EXCEPT !.pc = "returned"]
                       ELSE [@ EXCEPT !.pc = "add_name", !.candidate = candidate]]
           IN callers' = Guessed(GuessName(name_table, callers[t].hash, callers[t].index,
                                           callers[t].parent_name_hash))
        /\ UNCHANGED <<name_table, guessed, offsetVars, aamp_pc, aamp_pio, aamp_binary,
                       aamp_parsed,
                       yazVars, sarcVars, bymlVars>>

\* AddName(hash, candidate): owned_names.emplace starts writing the map
AddNameBegin ==
    \E t \in DOMAIN callers :
        /\ callers[t].pc = "add_name"
        /\ callers' = Access(t, "emplacing", TRUE)
        /\ UNCHANGED <<name_table, guessed, offsetVars, aamp_pc, aamp_pio, aamp_binary,
                       aamp_parsed,
                       yazVars, sarcVars, bymlVars>>

\* owned_names.insert_or_assign(hash, name): the name replaces the one the
\* map holds for the hash.
AddNameMutAssign(owned_names, hash, name) ==
    { pair \in owned_names : pair[1] # hash } \cup { << hash, name >> }

\* NameTable::AddName(hash, name) on the map
AddName(owned_names, hash, name) == MapEmplace(owned_names, hash, name)

\* owned_names.emplace is done and GetName returns it->second.  An emplace
\* that raced with an access of another thread has undefined behaviour: the
\* pair is inserted or lost, and the call returns or crashes.
AddNameEnd ==
    \E t \in DOMAIN callers :
        /\ callers[t].pc = "emplacing"
        /\ LET hash == callers[t].hash
               added == AddName(name_table.owned_names, hash, callers[t].candidate[1])
               Returned(owned_names) ==
                   /\ name_table' = [name_table EXCEPT !.owned_names = owned_names]
                   /\ callers' = [callers EXCEPT ![t] =
                          [@ EXCEPT !.pc = "returned",
                                    !.result = IF Find(owned_names, hash) # << >>
                                               THEN Find(owned_names, hash)
                                               ELSE callers[t].candidate]]
                   /\ guessed' = guessed \cup { << hash, callers'[t].result[1] >> }
           IN IF callers[t].raced
              THEN \/ Returned(added)
                   \/ Returned(name_table.owned_names)
                   \/ /\ callers' = [callers EXCEPT ![t] = [@ EXCEPT !.pc = "crashed"]]
                      /\ \E owned_names \in {added, name_table.owned_names} :
                             name_table' = [name_table EXCEPT !.owned_names = owned_names]
                      /\ UNCHANGED guessed
              ELSE Returned(added)
        /\ UNCHANGED <<offsetVars, aamp_pc, aamp_pio, aamp_binary, aamp_parsed, yazVars, sarcVars,
                       bymlVars>>

\* The names the caller adds to the table.
AddedNames ==
    { << 98, 117, 99, 107, 101, 114, 111, 111, 48 >>,       \* buckeroo0
      << 78, 49 >> }                                        \* N1

\* table.AddName(name), between two calls of GetName
AddNameCall ==
    \E name \in AddedNames :
        /\ \A t \in DOMAIN callers : callers[t].pc \in {"idle", "returned"}
        /\ name_table' = [name_table EXCEPT
                             !.owned_names = AddName(@, Crc32(name), name)]
        /\ UNCHANGED <<callers, guessed, offsetVars, aamp_pc, aamp_pio, aamp_binary,
                       aamp_parsed,
                       yazVars, sarcVars, bymlVars>>

\* table.AddNameReference(name), between two calls of GetName
AddNameReference ==
    \E name \in AddedNames :
        /\ \A t \in DOMAIN callers : callers[t].pc \in {"idle", "returned"}
        /\ name_table' = [name_table EXCEPT !.names = MapEmplace(@, Crc32(name), name)]
        /\ UNCHANGED <<callers, guessed, offsetVars, aamp_pc, aamp_pio, aamp_binary,
                       aamp_parsed,
                       yazVars, sarcVars, bymlVars>>

\* GetDefaultNameTable(): the table of NameTable(true), whose names and
\* numbered names come from the two resource files.
DefaultNameTable ==
    [names |-> { << Crc32(<< 112, 108, 117, 109, 108, 101, 115, 115 >>),
                    << 112, 108, 117, 109, 108, 101, 115, 115 >> >> },
     owned_names |-> {},
     numbered_names |-> << << 78, 37, 100 >>, << 78 >> >>]

\* No archive is written or parsed.
ArchiveIdle ==
    /\ aamp_pc = "idle"
    /\ aamp_pio = NoParameterIO
    /\ aamp_binary = << >>
    /\ aamp_parsed = [err |-> "none", v |-> NoParameterIO]

\* One thread, which calls GetName, AddName and AddNameReference on the
\* default table.
NameTableInit ==
    /\ name_table = DefaultNameTable
    /\ callers = << NoCall >>
    /\ guessed = {}
    /\ compact_offset = NoOffset

NameTableNext ==
    \/ GetNameCall
    \/ FindInNames
    \/ FindInOwnedBegin
    \/ FindInOwnedEnd
    \/ Guess
    \/ AddNameBegin
    \/ AddNameEnd
    \/ AddNameCall
    \/ AddNameReference

\* Two threads, each in a call of GetName on the default table.
NameTableThreadsInit ==
    /\ name_table = DefaultNameTable
    /\ \E first, second \in GetNameHashes, parent_name_hash \in ParentHashes :
           callers = [t \in 1..2 |->
                         [NoCall EXCEPT !.pc = "names",
                                        !.hash = IF t = 1 THEN first ELSE second,
                                        !.parent_name_hash = parent_name_hash]]
    /\ guessed = {}
    /\ compact_offset = NoOffset

NameTableThreadsNext ==
    \/ FindInNames
    \/ FindInOwnedBegin
    \/ FindInOwnedEnd
    \/ Guess
    \/ AddNameBegin
    \/ AddNameEnd

(***************************************************************************)
(* Specifications                                                          *)
(***************************************************************************)
YazIdle ==
    /\ yaz_pc = "idle"
    /\ src = << >>
    /\ m_result = << >>
    /\ m_pending_chunks = 0
    /\ m_group_header = 0
    /\ m_group_header_offset = 0
    /\ n_matches = 0
    /\ n_tokens = 0
    /\ yaz_out = [err |-> "none", dst |-> << >>]
    /\ decoder = DecoderIdle

InitYaz0 == YazInit /\ SarcIdle /\ BymlIdle /\ AampIdle

SpecYaz0 == InitYaz0 /\ [][YazNext]_vars

InitSarcWriter == SarcWriterInit /\ YazIdle /\ BymlIdle /\ AampIdle

SpecSarcWriter == InitSarcWriter /\ [][SarcWriterNext]_vars

InitSarc == SarcInit /\ YazIdle /\ BymlIdle /\ AampIdle

\* The loop of GetFile(name) keeps running while its condition holds.
SpecSarc ==
    InitSarc /\ [][SarcNext]_vars /\ WF_vars(SearchTest) /\ WF_vars(SearchProbe)

InitByml == BymlInit /\ YazIdle /\ SarcIdle /\ AampIdle

SpecByml == InitByml /\ [][BymlNext]_vars

InitBymlParse == BymlParseInit /\ YazIdle /\ SarcIdle /\ AampIdle

SpecBymlParse == InitBymlParse /\ [][ParseByml]_vars

\* FromBinary of inputs whose offsets lead back.
InitBymlCyclic == BymlCyclicInit /\ YazIdle /\ SarcIdle /\ AampIdle

SpecBymlCyclic == InitBymlCyclic /\ [][ParseByml]_vars

InitBymlTables == BymlTablesInit /\ YazIdle /\ SarcIdle /\ AampIdle

SpecBymlTables == InitBymlTables /\ [][EmitByml]_vars

InitBymlShared == BymlSharedInit /\ YazIdle /\ SarcIdle /\ AampIdle

SpecBymlShared == InitBymlShared /\ [][EmitByml]_vars

InitDecoder == DecoderInit /\ SarcIdle /\ BymlIdle /\ AampIdle

SpecDecoder == InitDecoder /\ [][DecoderNext]_vars

InitBymlGetters == BymlGettersInit /\ YazIdle /\ SarcIdle /\ AampIdle

SpecBymlGetters == InitBymlGetters /\ [][CallGetter]_vars

InitAamp == AampInit /\ YazIdle /\ SarcIdle /\ BymlIdle

SpecAamp == InitAamp /\ [][AampNext]_vars

InitAampOrdered == AampOrderedInit /\ YazIdle /\ SarcIdle /\ BymlIdle

SpecAampOrdered == InitAampOrdered /\ [][EmitParameterIO]_vars

InitNameTable == NameTableInit /\ ArchiveIdle /\ YazIdle /\ SarcIdle /\ BymlIdle

SpecNameTable == InitNameTable /\ [][NameTableNext]_vars

InitNameTableThreads ==
    NameTableThreadsInit /\ ArchiveIdle /\ YazIdle /\ SarcIdle /\ BymlIdle

\* Set and Get of a CompactOffset.
InitCompactOffset == CompactOffsetInit /\ ArchiveIdle /\ YazIdle /\ SarcIdle /\ BymlIdle

SpecCompactOffset == InitCompactOffset /\ [][CompactOffsetNext]_vars

\* Two threads on the shared table.
SpecNameTableThreads == InitNameTableThreads /\ [][NameTableThreadsNext]_vars

(***************************************************************************)
(* SARC properties                                                         *)
(***************************************************************************)
\* Sarc::GetFiles: the (name, data) pairs of the archive's entries.
FilesOf(s) ==
    { << GetFile(s, i).name, GetFile(s, i).data >> : i \in 0..(s.m_num_files - 1) }

\* No two entries of the archive have the same name.
DistinctNames(s) ==
    \A i, j \in 0..(s.m_num_files - 1) :
        GetFile(s, i).name = GetFile(s, j).name => i = j

C5_Terminates == (bs.pc # "idle") ~> (bs.pc = "idle")

\* C8: GuessMinAlignment returns the GCD of data_offset + data_begin over
\* all entries when that is a power of two, and 4 otherwise.
C8_GuessIsGcd ==
    got.op = "GuessMinAlignment" =>
        got.value = (IF IsValidAlignment(GuessLoop(sarc, 0, 0))
                     THEN GuessLoop(sarc, 0, 0) ELSE 4)

\* C9: GetFile(index) throws out_of_range without reading an entry for
\* every index >= the number of files, and reads an entry and returns a
\* file for every smaller index.
C9_IndexChecked ==
    got.op = "GetFile" =>
        IF got.index >= sarc.m_num_files
        THEN got.err = "out_of_range" /\ ~got.entry_read
        ELSE got.err = "none" /\ got.entry_read

\* The i-th (0-based) ResFatEntry of the archive Write returned.
WrittenEntry(i) ==
    ReadFatEntry(write_result.data, ResHeaderSize + ResFatHeaderSize + ResFatEntrySize * i,
                 m_endian)

\* C6: in the archive Write returned the entries are in ascending order of
\* name hash whatever the order of the file map, and the i-th name of the
\* SFNT and the i-th data block are those of the file of the i-th entry.
C6_SortedEntries ==
    write_result.valid =>
        LET s == SarcCtor(write_result.data)
            \* the offset of the i-th name, reading the names of the SFNT one
            \* after the other
            RECURSIVE SfntNameOffset(_)
            SfntNameOffset(i) ==
                IF i = 0 THEN s.m_names_offset
                ELSE AlignUp(SfntNameOffset(i - 1)
                             + StrLen(s.data, SfntNameOffset(i - 1)) + 1, 4)
        IN /\ s.err = "none"
           /\ s.m_num_files = Len(m_files)
           /\ \A i \in 0..(Len(m_files) - 1) :
                 LET name == ReadString(s.data, SfntNameOffset(i))
                 IN /\ i > 0 => Lt32(WrittenEntry(i - 1).name_hash, WrittenEntry(i).name_hash)
                    /\ i > 0 => WrittenEntry(i).data_begin >= WrittenEntry(i - 1).data_end
                    /\ WrittenEntry(i).name_hash = HashName(DefaultHashMultiplier, name)
                    /\ GetFile(s, i).err = "none"
                    /\ GetFile(s, i).name = name
                    /\ \E k \in 1..Len(m_files) : m_files[k] = << name, GetFile(s, i).data >>

\* C6 witness: an archive was written from a file map that held its two
\* files in descending order of name hash.
C6_Witness ==
    /\ write_result.valid
    /\ Len(m_files) = 2
    /\ Lt32(FileHash(m_files[2], DefaultHashMultiplier),
            FileHash(m_files[1], DefaultHashMultiplier))
    /\ WrittenEntry(0).name_hash = FileHash(m_files[2], DefaultHashMultiplier)

\* C7: in the archive Write returned every file's data starts at a multiple
\* of the file's alignment, the bytes of its entry's range are its content,
\* data_offset is a multiple of the returned alignment, and the returned
\* alignment is the least common multiple of the files' alignments.
C7_AlignedData ==
    write_result.valid =>
        LET s == SarcCtor(write_result.data)
            alignment(f) ==
                GetAlignmentForFile(f[1], f[2], m_min_alignment, m_alignment_map,
                                    m_mode, m_endian)
            LeastCommonMultiple(S) ==
                CHOOSE l \in 1..8192 :
                    /\ \A a \in S : l % a = 0
                    /\ \A k \in 1..(l - 1) : \E a \in S : k % a # 0
        IN /\ s.err = "none"
           /\ \A i \in 0..(Len(m_files) - 1) :
                 \* the file of m_files the i-th entry is named after
                 \E k \in 1..Len(m_files) :
                     LET begin == s.m_data_offset + WrittenEntry(i).data_begin
                         end == s.m_data_offset + WrittenEntry(i).data_end
                     IN /\ GetFile(s, i).err = "none"
                        /\ GetFile(s, i).name = m_files[k][1]
                        /\ begin % alignment(m_files[k]) = 0
                        /\ begin <= end
                        /\ end <= Len(s.data)
                        /\ SubSeq(s.data, begin + 1, end) = m_files[k][2]
           /\ s.m_data_offset % write_result.alignment = 0
           /\ write_result.alignment =
                  LeastCommonMultiple({alignment(m_files[k]) : k \in 1..Len(m_files)})

\* C7 witness: an archive of two files with different alignments, the
\* second of which had to be moved up to its alignment.
C7_Witness ==
    /\ write_result.valid
    /\ Len(m_files) = 2
    /\ WrittenEntry(1).data_begin > WrittenEntry(0).data_end
    /\ write_result.alignment > m_min_alignment
    /\ SarcCtor(write_result.data).m_data_offset % write_result.alignment = 0

\* C10: Write computes every file's alignment from the requirement the
\* caller last set for its extension (the built-in default only where the
\* caller set none), so the archive is the one those alignments give.
C10_CallerValueUsed ==
    (sarc_pc = "written") =>
        LET defaults == AddDefaultAlignmentRequirements(EmptyMap, m_endian)
            expected == [k \in (DOMAIN defaults) \cup (DOMAIN caller_requirements) |->
                            IF k \in DOMAIN caller_requirements
                            THEN caller_requirements[k] ELSE defaults[k]]
        IN \E files \in SortedByHash(m_files, DefaultHashMultiplier) :
              LET result == WriteArchive(files,
                                         FileAlignments(files, m_min_alignment, expected,
                                                        m_mode, m_endian),
                                         m_endian, DefaultHashMultiplier)
              IN /\ write_result.alignment = result.alignment
                 /\ write_result.data = result.data

(***************************************************************************)
(* BYML properties                                                         *)
(***************************************************************************)
\* C2: for a document d whose root is Null or a container, either byte order
\* and a version that admits the node types of d (Hash32, Hash64, Binary and
\* File nodes exist from version 4 on), Byml::FromBinary of the bytes
\* d.ToBinary(big_endian, version) returned gives back a document equal to d.
C2_RoundTrip ==
    LET RECURSIVE HasNodeType(_, _)
        HasNodeType(d, types) ==
            \/ GetType(d) \in types
            \/ /\ GetType(d) = "Array"
               /\ \E i \in 1..Len(Get(d)) : HasNodeType(Get(d)[i], types)
            \/ /\ GetType(d) \in {"Dictionary", "Hash32", "Hash64"}
               /\ \E i \in 1..Len(Get(d)) : HasNodeType(Get(d)[i][2], types)
        VersionAdmits(version, d) ==
            version >= 4 \/ ~HasNodeType(d, {"Hash32", "Hash64", "Binary", "File"})
    IN (byml_pc = "parsed" /\ VersionAdmits(byml_args.version, byml_doc))
           => byml_parsed = [err |-> "none", v |-> byml_doc]

\* C11: a typed getter called on a node follows the coercion table: GetInt
\* gives the value of an Int and the value of a UInt with its 32 bits
\* reinterpreted; GetUInt a UInt, or an Int that is >= 0; GetInt64 an Int or
\* UInt widened, or an Int64; GetUInt64 a UInt or UInt64, or an Int or Int64
\* that is >= 0; GetBool, GetFloat, GetDouble and GetString the value of the
\* exact type only; every other call raises TypeError.
C11_CoercionTable ==
    (byml_pc = "got") =>
        LET type == GetType(byml_doc)
            value == Get(byml_doc)
            Returns(x) == byml_got.err = "none" /\ byml_got.v = x
            TypeError == byml_got.err = "TypeError"
            Exact(wanted) == IF type = wanted THEN Returns(value) ELSE TypeError
            Widened(x) == (IF x < 0 THEN << 255, 255, 255, 255 >> ELSE << 0, 0, 0, 0 >>)
                              \o << (x \div 16777216) % 256, (x \div 65536) % 256,
                                    (x \div 256) % 256, x % 256 >>
            Zero(x) == << 0, 0, 0, 0, x[1] \div 256, x[1] % 256, x[2] \div 256, x[2] % 256 >>
        IN CASE byml_getter = "GetBool" -> Exact("Bool")
             [] byml_getter = "GetFloat" -> Exact("Float")
             [] byml_getter = "GetDouble" -> Exact("Double")
             [] byml_getter = "GetString" -> Exact("String")
             [] byml_getter = "GetInt" ->
                    CASE type = "Int" -> Returns(value)
                      [] type = "UInt" ->
                             /\ byml_got.err = "none"
                             /\ (byml_got.v \div 65536) % 65536 = value[1]
                             /\ byml_got.v % 65536 = value[2]
                      [] OTHER -> TypeError
             [] byml_getter = "GetUInt" ->
                    CASE type = "UInt" -> Returns(value)
                      [] type = "Int" ->
                             IF value >= 0
                             THEN Returns(<< value \div 65536, value % 65536 >>)
                             ELSE TypeError
                      [] OTHER -> TypeError
             [] byml_getter = "GetInt64" ->
                    CASE type = "Int" -> Returns(Widened(value))
                      [] type = "UInt" -> Returns(Zero(value))
                      [] type = "Int64" -> Returns(value)
                      [] OTHER -> TypeError
             [] byml_getter = "GetUInt64" ->
                    CASE type = "Int" ->
                             IF value >= 0 THEN Returns(Widened(value)) ELSE TypeError
                      [] type = "UInt" -> Returns(Zero(value))
                      [] type = "UInt64" -> Returns(value)
                      [] type = "Int64" ->
                             IF value[1] < 128 THEN Returns(value) ELSE TypeError
                      [] OTHER -> TypeError

\* C12: Byml::FromBinary of an input of at least the 16 bytes of the header
\* fails with InvalidData when the magic is neither BY nor YB, the version is
\* outside 1..10, the offset of a string table or of the root node points
\* outside the buffer, or a String child of an Array root holds an index
\* outside the string table.
C12_InvalidData ==
    LET data == byml_binary.data
        endian == IF data[1] = 66 /\ data[2] = 89 THEN "Big" ELSE "Little"
        bad_magic == ~(data[1] = 66 /\ data[2] = 89) /\ ~(data[1] = 89 /\ data[2] = 66)
        version == Read(data, 2, 2, endian)
        hash_key_table_offset == Read(data, 4, 4, endian)
        string_table_offset == Read(data, 8, 4, endian)
        root_node_offset == Read(data, 12, 4, endian)
        offset_outside == \E offset \in { hash_key_table_offset, string_table_offset,
                                          root_node_offset } : offset >= Len(data)
        strings == Read(data, string_table_offset + 1, 3, endian)
        num_entries == Read(data, root_node_offset + 1, 3, endian)
        values_offset == AlignUp(root_node_offset + 4 + num_entries, 4)
        index_outside ==
            /\ string_table_offset # 0 /\ string_table_offset + 4 <= Len(data)
            /\ data[string_table_offset + 1] = NodeType.StringTable
            /\ root_node_offset # 0 /\ root_node_offset + 4 <= Len(data)
            /\ data[root_node_offset + 1] = NodeType.Array
            /\ \E i \in 0..(Len(data) - 1) :
                   /\ i < num_entries
                   /\ root_node_offset + 4 + i < Len(data)
                   /\ data[root_node_offset + 4 + i + 1] = NodeType.String
                   /\ values_offset + 4 * i + 4 <= Len(data)
                   /\ Read(data, values_offset + 4 * i, 4, endian) >= strings
                   /\ \A j \in 0..(i - 1) :
                          data[root_node_offset + 4 + j + 1] \in { NodeType.Null, NodeType.Bool,
                                                                  NodeType.Int }
    IN (/\ byml_pc = "parsed"
        /\ Len(data) >= 16
        /\ bad_magic \/ version < 1 \/ version > 10 \/ offset_outside \/ index_outside)
           => byml_parsed.err = "InvalidData"

\* C13: d.ToBinary(big_endian, version) with a version in 1..10 returns bytes
\* when the version admits every node type of d, and fails with InvalidData
\* and returns no bytes when d holds a Hash32, Hash64, Binary or File node
\* and the version is 1, 2 or 3.
C13_VersionChecked ==
    LET RECURSIVE Holds(_, _)
        Holds(d, types) ==
            \/ GetType(d) \in types
            \/ /\ GetType(d) = "Array"
               /\ \E i \in 1..Len(Get(d)) : Holds(Get(d)[i], types)
            \/ /\ GetType(d) \in {"Dictionary", "Hash32", "Hash64"}
               /\ \E i \in 1..Len(Get(d)) : Holds(Get(d)[i][2], types)
        unrepresentable == /\ byml_args.version < 4
                           /\ Holds(byml_doc, {"Hash32", "Hash64", "Binary", "File"})
    IN (byml_pc = "written" /\ byml_args.version \in 1..10) =>
           IF unrepresentable
           THEN byml_binary = [err |-> "InvalidData", data |-> << >>]
           ELSE byml_binary.err = "none"

\* C14: in the bytes ToBinary returned, the cell of every File child of the
\* root container holds an offset o with (o + 8) mod align = 0, and the
\* record of the node, its size, its alignment and its bytes, starts at o.
C14_FileAligned ==
    LET data == byml_binary.data
        endian == IF byml_args.big_endian THEN "Big" ELSE "Little"
        type == GetType(byml_doc)
        size == Len(Get(byml_doc))
        root_node_offset == Read(data, 12, 4, endian)
        child(i) == IF type = "Array" THEN Get(byml_doc)[i] ELSE Get(byml_doc)[i][2]
        cell(i) == CASE type = "Array" -> AlignUp(root_node_offset + 4 + size, 4) + 4 * (i - 1)
                     [] type = "Hash64" -> root_node_offset + 4 + 12 * (i - 1) + 8
                     [] OTHER -> root_node_offset + 4 + 8 * (i - 1) + 4
        RecordAt(o, file) ==
            /\ o + 8 + Len(file.data) <= Len(data)
            /\ Read(data, o, 4, endian) = Len(file.data)
            /\ Read(data, o + 4, 4, endian) = file.align
            /\ SubSeq(data, o + 9, o + 8 + Len(file.data)) = file.data
        Aligned(o, file) == (o + 8) % file.align = 0 /\ RecordAt(o, file)
    IN (byml_pc = "written" /\ byml_binary.err = "none" /\ type # "Null") =>
           \A i \in 1..size :
               GetType(child(i)) = "File" =>
                   /\ cell(i) + 4 <= Len(data)
                   /\ Aligned(Read(data, cell(i), 4, endian), Get(child(i)))

\* C15: in the bytes ToBinary returned, the hash key table lists exactly the
\* keys of the Dictionary nodes of the document and the string table exactly
\* the values of its String nodes, each string once and in strictly
\* ascending byte order, behind count + 1 non-decreasing offsets (a table
\* without strings is left out, its header offset 0); the key index of every
\* Dictionary entry and the cell of every String node hold the position of
\* their string in the table.
C15_SortedTables ==
    LET data == byml_binary.data
        endian == IF byml_args.big_endian THEN "Big" ELSE "Little"
        U(offset, n) == IF offset < 0 THEN Nullopt ELSE Read(data, offset, n, endian)
        RECURSIVE Strings(_, _)
        Strings(d, type) ==
            LET size == IF IsContainerType(GetType(d)) THEN Len(Get(d)) ELSE 0
                child(i) == IF GetType(d) = "Array" THEN Get(d)[i] ELSE Get(d)[i][2]
            IN (IF GetType(d) # type THEN {}
                ELSE IF type = "String" THEN { Get(d) }
                ELSE { Get(d)[i][1] : i \in 1..size })
               \cup UNION { Strings(child(i), type) : i \in 1..size }
        Count(table) == U(table + 1, 3)
        Offset(table, i) == U(table + 4 + 4 * i, 4)
        String(table, i) ==
            IF i < 0 \/ i >= Count(table) \/ Offset(table, i) < 0 THEN << 0 >>
            ELSE ReadString(data, table + Offset(table, i))
        TableIs(table, strings) ==
            IF strings = {} THEN table = 0
            ELSE /\ U(table, 1) = NodeType.StringTable
                 /\ Count(table) = Cardinality(strings)
                 /\ \A i \in 0..(Count(table) - 1) :
                        /\ 0 <= Offset(table, i)
                        /\ Offset(table, i) <= Offset(table, i + 1)
                        /\ String(table, i) \in strings
                        /\ i > 0 => StrLess(String(table, i - 1), String(table, i))
        hash_key_table == U(4, 4)
        string_table == U(8, 4)
        RECURSIVE Indexed(_, _)
        Indexed(d, offset) ==
            LET type == GetType(d)
                size == Len(Get(d))
                child(i) == IF type = "Array" THEN Get(d)[i] ELSE Get(d)[i][2]
                cell(i) ==
                    CASE type = "Array" -> AlignUp(offset + 4 + size, 4) + 4 * (i - 1)
                      [] type = "Hash64" -> offset + 4 + 12 * (i - 1) + 8
                      [] OTHER -> offset + 4 + 8 * (i - 1) + 4
            IN /\ offset > 0
               /\ \A i \in 1..size :
                      /\ type = "Dictionary" =>
                             String(hash_key_table, U(cell(i) - 4, 3)) = Get(d)[i][1]
                      /\ GetType(child(i)) = "String" =>
                             String(string_table, U(cell(i), 4)) = Get(child(i))
                      /\ IsContainerType(GetType(child(i))) =>
                             Indexed(child(i), U(cell(i), 4))
    IN (byml_pc = "written" /\ byml_binary.err = "none") =>
           /\ TableIs(hash_key_table, Strings(byml_doc, "Dictionary"))
           /\ TableIs(string_table, Strings(byml_doc, "String"))
           /\ Indexed(byml_doc, U(12, 4))

\* A written document whose root is a Dictionary, with four keys of which a
\* nested one sorts first, and three strings.
C15_Witness ==
    /\ byml_pc = "written"
    /\ byml_binary.err = "none"
    /\ GetType(byml_doc) = "Dictionary"
    /\ Cardinality(Traverse(byml_doc, "Dictionary")) = 4
    /\ Cardinality(Traverse(byml_doc, "String")) = 3
    /\ byml_binary.data[Read(byml_binary.data, 12, 4,
                             IF byml_args.big_endian THEN "Big" ELSE "Little") + 1]
           = NodeType.Dictionary
    /\ Read(byml_binary.data, Read(byml_binary.data, 12, 4,
                                   IF byml_args.big_endian THEN "Big" ELSE "Little") + 4,
            3, IF byml_args.big_endian THEN "Big" ELSE "Little") > 0

(***************************************************************************)
(* AAMP properties                                                         *)
(***************************************************************************)
\* C3: ParameterIO::FromBinary of the bytes p.ToBinary() returned gives
\* back p: version, type, and the lists, objects and parameters with their
\* values in insertion order.
C3_RoundTrip ==
    (aamp_pc = "parsed") => aamp_parsed = [err |-> "none", v |-> aamp_pio]

\* C20: for an object with two buffer parameters of equal contents, ToBinary
\* writes the blob, the element count followed by the elements, once in the
\* data section; the data offset of both ResParameter structures designates
\* the first element of that blob, the count in the 4 bytes before it; and
\* FromBinary gives both parameters back.
C20_BufferReused ==
    LET params == aamp_pio.objects[1][2].params
        equal == /\ Len(aamp_pio.objects) = 1
                 /\ aamp_pio.lists = << >>
                 /\ Len(params) = 2
                 /\ IsBufferType(params[1][2].type)
                 /\ IsBufferType(params[2][2].type)
                 /\ ParameterData(params[1][2]) = ParameterData(params[2][2])
        blob == ParameterData(params[1][2])
        list == 48 + Read(aamp_binary, 20, 4, "Little")
        object == list + 4 * Read(aamp_binary, list + 8, 2, "Little")
        parameter(j) == object + 4 * Read(aamp_binary, object + 4, 2, "Little") + 8 * (j - 1)
        data_offset(j) == parameter(j) + 4 * Read(aamp_binary, parameter(j) + 4, 3, "Little")
        data_section_begin == parameter(2) + 8
        data_section_size == Read(aamp_binary, 36, 4, "Little")
        blobs == { offset \in data_section_begin..(data_section_begin + data_section_size
                                                      - Len(blob)) :
                      /\ (offset - data_section_begin) % 4 = 0
                      /\ SubSeq(aamp_binary, offset + 1, offset + Len(blob)) = blob }
    IN (aamp_pc \in {"written", "parsed"} /\ equal) =>
           /\ Cardinality(blobs) = 1
           /\ \A j \in 1..2 : data_offset(j) - 4 \in blobs
           /\ aamp_pc = "parsed" => aamp_parsed = [err |-> "none", v |-> aamp_pio]

\* C21: in the data section ToBinary wrote, the byte ranges the ResParameter
\* structures of any two non-string parameters designate (for a buffer, the
\* element count and the elements) are the same range when the serialized
\* payloads are equal and disjoint ranges when they differ.
C21_PayloadsDisjoint ==
    LET RECURSIVE Written(_)
        \* the parameters in the order of their ResParameter structures
        Written(list) ==
            LET RECURSIVE Children(_), Objects(_)
                Children(i) == IF i > Len(list.lists) THEN << >>
                               ELSE Written(list.lists[i][2]) \o Children(i + 1)
                Objects(k) == IF k > Len(list.objects) THEN << >>
                              ELSE [j \in 1..Len(list.objects[k][2].params) |->
                                       list.objects[k][2].params[j][2]] \o Objects(k + 1)
            IN Children(1) \o Objects(1)
        params == Written(aamp_pio)
        data_section_begin == Len(aamp_binary) - Read(aamp_binary, 40, 4, "Little")
                                  - Read(aamp_binary, 36, 4, "Little")
        parameter(j) == data_section_begin - 8 * (Len(params) - j + 1)
        data_offset(j) == parameter(j) + 4 * Read(aamp_binary, parameter(j) + 4, 3, "Little")
        begin(j) == data_offset(j) - (IF IsBufferType(params[j].type) THEN 4 ELSE 0)
        end(j) == begin(j) + Len(ParameterData(params[j]))
        data == { j \in 1..Len(params) : ~IsStringType(params[j].type) }
    IN (aamp_pc \in {"written", "parsed"}) =>
           \A i, j \in data :
               IF ParameterData(params[i]) = ParameterData(params[j])
               THEN begin(i) = begin(j)
               ELSE end(i) <= begin(j) \/ end(j) <= begin(i)

(***************************************************************************)
(* NameTable properties                                                    *)
(***************************************************************************)
\* C22: two threads that call GetName on the table GetDefaultNameTable()
\* returned never have one thread insert a guess into owned_names while the
\* other reads or inserts into it, and a call whose hash is in the names of
\* the table at first use returns that name.
C22_GetNameThreadSafe ==
    /\ \A t, u \in DOMAIN callers :
           (t # u /\ callers[t].pc = "emplacing") =>
               callers[u].pc \notin {"reading_owned", "emplacing"}
    /\ \A t \in DOMAIN callers :
           (callers[t].pc = "returned"
                /\ Find(DefaultNameTable.names, callers[t].hash) # << >>) =>
               callers[t].result = Find(DefaultNameTable.names, callers[t].hash)

\* C28 as stated: once a call of GetName has returned a name n for a hash by
\* guessing, every later call of GetName with that hash returns n.
C28_LaterCallsReturnGuess ==
    [][\A t \in DOMAIN callers : \A pair \in guessed :
           (callers[t].pc # "returned" /\ callers'[t].pc = "returned"
                /\ callers'[t].hash = pair[1])
               => callers'[t].result = << pair[2] >>]_vars

\* C28: once a call of GetName has returned a name n for a hash by guessing,
\* owned_names maps the hash to n and no later GetName, AddName or
\* AddNameReference removes or changes that entry; every later GetName with
\* that hash, whatever its index and parent hash, returns n unless names
\* holds a name for the hash (one added by AddNameReference), which it then
\* returns.
C28_GuessesMemoized ==
    [][/\ \A pair \in guessed' : Find(name_table'.owned_names, pair[1]) = << pair[2] >>
       /\ \A t \in DOMAIN callers : \A pair \in guessed :
              (callers[t].pc # "returned" /\ callers'[t].pc = "returned"
                   /\ callers'[t].hash = pair[1])
                  => callers'[t].result =
                         (IF Find(name_table.names, pair[1]) # << >>
                          THEN Find(name_table.names, pair[1]) ELSE << pair[2] >>)]_vars

\* A later call has returned the guessed name from owned_names.
C28_Witness ==
    \E t \in DOMAIN callers :
        /\ callers[t].pc = "returned"
        /\ callers[t].candidate = << >>
        /\ Find(name_table.names, callers[t].hash) = << >>
        /\ callers[t].result # << >>
        /\ << callers[t].hash, callers[t].result[1] >> \in guessed

(***************************************************************************)
(* BYML properties: the non-inline nodes                                   *)
(***************************************************************************)
\* Where the bytes of a node written at offset o end: a container with its
\* type bytes and cells, a long value, a Binary or a File with its prefix.
PayloadEnd(node, o) ==
    LET n == Len(Get(node))
    IN CASE GetType(node) = "Array" -> AlignUp(o + 4 + n, 4) + 4 * n
         [] GetType(node) = "Dictionary" -> o + 4 + 8 * n
         [] GetType(node) = "Hash32" -> AlignUp(o + 4 + 9 * n, 4)
         [] GetType(node) = "Hash64" -> AlignUp(o + 4 + 13 * n, 4)
         [] GetType(node) = "Binary" -> o + 4 + n
         [] GetType(node) = "File" -> o + 8 + Len(Get(node).data)
         [] OTHER -> o + 8

\* The cells of the non-inline nodes below the root in the bytes ToBinary
\* returned, as <<node, offset held by the cell, position of the cell>>.
NonInlineCells ==
    LET data == byml_binary.data
        endian == IF byml_args.big_endian THEN "Big" ELSE "Little"
        Item(node, i) == IF GetType(node) = "Array" THEN Get(node)[i] ELSE Get(node)[i][2]
        Cell(node, o, i) ==
            CASE GetType(node) = "Array" -> AlignUp(o + 4 + Len(Get(node)), 4) + 4 * (i - 1)
              [] GetType(node) = "Hash64" -> o + 12 * i
              [] OTHER -> o + 8 * i
        RECURSIVE Cells(_, _)
        Cells(node, o) ==
            IF ~IsContainerType(GetType(node)) \/ o < 0 THEN {}
            ELSE UNION { IF ~IsNonInlineType(GetType(Item(node, i))) THEN {}
                         ELSE LET Held(offset) ==
                                      { << Item(node, i), offset, Cell(node, o, i) >> }
                                          \cup Cells(Item(node, i), offset)
                              IN Held(Read(data, Cell(node, o, i), 4, endian)) :
                         i \in 1..Len(Get(node)) }
    IN Cells(byml_doc, Read(data, 12, 4, endian))

\* The bytes at offset o are the node: the type byte, the count, the type
\* bytes of the items and the keys of a container, the value of a long node,
\* the prefix and the bytes of a Binary or a File.
PayloadAt(node, o) ==
    LET data == byml_binary.data
        endian == IF byml_args.big_endian THEN "Big" ELSE "Little"
        type == GetType(node)
        n == Len(Get(node))
        Item(i) == IF type = "Array" THEN Get(node)[i] ELSE Get(node)[i][2]
        type_offset(i) ==
            CASE type = "Array" -> o + 4 + (i - 1)
              [] type = "Dictionary" -> o + 4 + 8 * (i - 1) + 3
              [] type = "Hash32" -> o + 4 + 8 * n + (i - 1)
              [] type = "Hash64" -> o + 4 + 12 * n + (i - 1)
    IN /\ o >= 0
       /\ ~IsContainerType(type) => PayloadEnd(node, o) <= Len(data)
       /\ CASE IsContainerType(type) ->
                   /\ Read(data, o, 1, endian) = NodeType[type]
                   /\ Read(data, o + 1, 3, endian) = n
                   /\ \A i \in 1..n :
                          /\ Read(data, type_offset(i), 1, endian) = NodeType[GetType(Item(i))]
                          /\ type = "Hash32" =>
                                 Read(data, o + 8 * i - 4, 4, endian) = Get(node)[i][1]
                          /\ type = "Hash64" =>
                                 Read64(data, o + 12 * i - 8, endian) = Get(node)[i][1]
            [] type = "Binary" ->
                   /\ Read(data, o, 4, endian) = n
                   /\ SubSeq(data, o + 5, o + 4 + n) = Get(node)
            [] type = "File" ->
                   /\ Read(data, o, 4, endian) = Len(Get(node).data)
                   /\ Read(data, o + 4, 4, endian) = Get(node).align
                   /\ SubSeq(data, o + 9, o + 8 + Len(Get(node).data)) = Get(node).data
            [] OTHER -> Read64(data, o, endian) = Get(node)

\* C23: in the bytes ToBinary returned, the cells of two equal non-inline
\* nodes (containers, Int64, UInt64, Double, Binary, File), wherever they are
\* in the document, hold the same offset; the cell of every non-inline node
\* holds the offset where that node is written; and every byte behind the
\* offset of the root belongs to exactly one written node (the root or a
\* non-inline node), or to the padding in front of a File.
C23_PayloadsShared ==
    LET data == byml_binary.data
        root == Read(data, 12, 4, IF byml_args.big_endian THEN "Big" ELSE "Little")
        written == { << c[1], c[2] >> : c \in NonInlineCells } \cup { << byml_doc, root >> }
        Holding(q) == { w \in written : w[2] <= q /\ q < PayloadEnd(w[1], w[2]) }
    IN (byml_pc = "written" /\ byml_binary.err = "none"
            /\ IsContainerType(GetType(byml_doc))) =>
           /\ \A a, b \in NonInlineCells : a[1] = b[1] => a[2] = b[2]
           /\ \A c \in NonInlineCells : PayloadAt(c[1], c[2])
           /\ \A q \in root..(Len(data) - 1) :
                  \/ Cardinality(Holding(q)) = 1
                  \/ /\ Holding(q) = {}
                     /\ \E w \in written : /\ GetType(w[1]) = "File"
                                           /\ w[2] - Get(w[1]).align < q
                                           /\ q < w[2]

\* Two equal arrays at different levels of the document, one held by a cell
\* of the root and one by a cell of another container, share one offset.
C23_Witness ==
    LET root == Read(byml_binary.data, 12, 4, IF byml_args.big_endian THEN "Big" ELSE "Little")
    IN /\ byml_pc = "written"
       /\ byml_binary.err = "none"
       /\ \E a, b \in NonInlineCells :
              /\ a[1] = b[1]
              /\ a[2] = b[2]
              /\ GetType(a[1]) = "Array"
              /\ a[3] < PayloadEnd(byml_doc, root)
              /\ b[3] >= PayloadEnd(byml_doc, root)

(***************************************************************************)
(* AAMP properties: the order of the parameter data                        *)
(***************************************************************************)
\* The 32-bit words of the data section of the archive ToBinary returned.
DataSection ==
    LET data_section_size == Read(aamp_binary, 36, 4, "Little")
        data_section_begin == Len(aamp_binary) - Read(aamp_binary, 40, 4, "Little")
                                  - data_section_size
    IN [n \in 1..(data_section_size \div 4) |->
           Read(aamp_binary, data_section_begin + 4 * (n - 1), 4, "Little")]

\* The words of the parameters of the from-th to the to-th object of a list
\* that are not strings, in insertion order.
ObjectWords(list, from, to) ==
    LET RECURSIVE Params(_, _), Objects(_)
        Params(params, j) ==
            IF j > Len(params) THEN << >>
            ELSE (IF IsStringType(params[j][2].type) THEN << >> ELSE params[j][2].v)
                     \o Params(params, j + 1)
        Objects(k) == IF k > to THEN << >>
                      ELSE Params(list.objects[k][2].params, 1) \o Objects(k + 1)
    IN Objects(from)

\* C24: the parameter data of an archive without the marker is in this
\* order: the first 7 objects of the root list (all if it has fewer), then
\* its child lists, then its other objects; for a list that is not the root,
\* one object not yet taken in front of every child list of even index (from
\* 0), the child lists in order, and the other objects behind the last child
\* list.
C24_CollectOrder ==
    LET RECURSIVE Claimed(_, _), Marked(_)
        Min(a, b) == IF a < b THEN a ELSE b
        Claimed(list, root) ==
            LET n == Len(list.objects)
                RECURSIVE Lists(_, _)
                \* at the child list of index k, with taken objects done
                Lists(k, taken) ==
                    IF k >= Len(list.lists) THEN ObjectWords(list, taken + 1, n)
                    ELSE LET one == ~root /\ k % 2 = 0 /\ taken < n
                         IN (IF one THEN ObjectWords(list, taken + 1, taken + 1) ELSE << >>)
                                \o Claimed(list.lists[k + 1][2], FALSE)
                                \o Lists(k + 1, IF one THEN taken + 1 ELSE taken)
            IN IF root THEN ObjectWords(list, 1, Min(7, n)) \o Lists(0, Min(7, n))
               ELSE Lists(0, 0)
        Marked(list) ==
            \/ list.objects # << >> /\ list.objects[1][1] = DemoAIActionIdx
            \/ \E i \in 1..Len(list.lists) : Marked(list.lists[i][2])
    IN (aamp_pc = "written" /\ ~Marked(aamp_pio)) => DataSection = Claimed(aamp_pio, TRUE)

\* The paths of the parameters of a parameter tree.
RECURSIVE ParameterPaths(_, _)
ParameterPaths(list, path) ==
    UNION { { path \o << k, j >> : j \in 1..Len(list.objects[k][2].params) } :
                k \in 1..Len(list.objects) } \cup
    UNION { ParameterPaths(list.lists[i][2], path \o << i >>) : i \in 1..Len(list.lists) }

\* C29: every parameter of the tree is in exactly one of the two queues
\* CollectParameters fills, and once: the strings in
\* string_parameters_to_write, the others in parameters_to_write, the
\* parameters of one object next to one another and in insertion order in
\* both; and in the bytes written the data offset of every ResParameter is
\* patched: it leads to the value of its parameter, in the data section for
\* the one kind and in the string section for the other.
C29_EveryParameterQueued ==
    LET collected == CollectParameters(aamp_pio, << >>, TRUE)
        data == parameters_to_write(collected)
        strings == string_parameters_to_write(collected)
        Paths(queue) == { queue[n][1] : n \in 1..Len(queue) }
        Object(p) == SubSeq(p, 1, Len(p) - 1)
        \* the entries of an object are adjacent and in the order of its map
        Grouped(queue) ==
            \A m, n \in 1..Len(queue) :
                (m < n /\ Object(queue[m][1]) = Object(queue[n][1]))
                    => /\ queue[m][1][Len(queue[m][1])] < queue[n][1][Len(queue[n][1])]
                       /\ \A k \in m..n : Object(queue[k][1]) = Object(queue[m][1])
        RECURSIVE Written(_, _)
        \* the parameters in the order of their ResParameter structures
        Written(list, path) ==
            LET RECURSIVE Children(_), Objects(_)
                Children(i) == IF i > Len(list.lists) THEN << >>
                               ELSE Written(list.lists[i][2], path \o << i >>)
                                        \o Children(i + 1)
                Objects(k) == IF k > Len(list.objects) THEN << >>
                              ELSE [j \in 1..Len(list.objects[k][2].params) |->
                                       << path \o << k, j >>,
                                          list.objects[k][2].params[j][2] >>]
                                       \o Objects(k + 1)
            IN Children(1) \o Objects(1)
        params == Written(aamp_pio, << >>)
        string_section_begin == Len(aamp_binary) - Read(aamp_binary, 40, 4, "Little")
        data_section_begin == string_section_begin - Read(aamp_binary, 36, 4, "Little")
        parameter(j) == data_section_begin - 8 * (Len(params) - j + 1)
        data_offset(j) == parameter(j) + 4 * Read(aamp_binary, parameter(j) + 4, 3, "Little")
        Holds(offset, bytes, begin, end) ==
            /\ begin <= offset /\ offset + Len(bytes) <= end
            /\ SubSeq(aamp_binary, offset + 1, offset + Len(bytes)) = bytes
    IN aamp_pc = "written" =>
           /\ Len(data) + Len(strings) = Cardinality(ParameterPaths(aamp_pio, << >>))
           /\ Paths(data) \cup Paths(strings) = ParameterPaths(aamp_pio, << >>)
           /\ \A n \in 1..Len(data) : ~IsStringType(data[n][2].type)
           /\ \A n \in 1..Len(strings) : IsStringType(strings[n][2].type)
           /\ Grouped(data) /\ Grouped(strings)
           /\ \A j \in 1..Len(params) :
                  IF IsStringType(params[j][2].type)
                  THEN /\ params[j][1] \in Paths(strings)
                       /\ Holds(data_offset(j), params[j][2].v \o << 0 >>,
                                string_section_begin, Len(aamp_binary))
                  ELSE /\ params[j][1] \in Paths(data)
                       /\ Holds(data_offset(j), ParameterData(params[j][2]),
                                data_section_begin, string_section_begin)

\* An archive written whose root has more than 7 objects and the marker, with
\* child lists that have child lists and strings among the parameters.
C29_Witness ==
    /\ aamp_pc = "written"
    /\ Len(aamp_pio.objects) = 9
    /\ aamp_pio.objects[1][1] = DemoAIActionIdx
    /\ Len(aamp_pio.lists) = MaxLists
    /\ \E i \in 1..Len(aamp_pio.lists) : Len(aamp_pio.lists[i][2].lists) = MaxLists
    /\ string_parameters_to_write(CollectParameters(aamp_pio, << >>, TRUE)) # << >>

\* C25: for a document whose root is a Hash64 node of n entries written at
\* offset o with a version that has Hash64 nodes (4 or later), the bytes
\* ToBinary returned hold the 8-byte key of entry i at o + 4 + 12 * i and the
\* n type bytes from o + 4 + 12 * n on, and FromBinary reads every key and
\* every value back unchanged.
C25_Hash64Layout ==
    LET data == byml_binary.data
        endian == IF byml_args.big_endian THEN "Big" ELSE "Little"
        o == Read(data, 12, 4, endian)
        n == Len(Get(byml_doc))
    IN (byml_pc = "parsed" /\ GetType(byml_doc) = "Hash64"
            /\ byml_args.version >= 4) =>
           /\ \A i \in 0..(n - 1) :
                  /\ Read64(data, o + 4 + 12 * i, endian) = Get(byml_doc)[i + 1][1]
                  /\ Read(data, o + 4 + 12 * n + i, 1, endian)
                         = NodeType[GetType(Get(byml_doc)[i + 1][2])]
           /\ byml_parsed = [err |-> "none", v |-> byml_doc]

\* C26: Byml::FromBinary reads no byte outside the buffer it was given: when
\* the [size] prefix of a Binary node or the [size][align] prefix of a File
\* node announces more bytes than the buffer holds after it, the parse fails
\* with an exception and copies nothing from beyond the end.
C26_PayloadInsideBuffer ==
    byml_pc = "parsed" => byml_parsed.err # "read_outside_buffer"

\* C27: Byml::FromBinary returns or throws on every input: no container cell
\* that holds the offset of the container itself or of one of its ancestors
\* makes the parser descend without end.
C27_ParseTerminates ==
    byml_pc = "parsed" => byml_parsed.err # "unbounded_recursion"

(***************************************************************************)
(* CompactOffset properties                                                *)
(***************************************************************************)
\* C30: an offset that CompactOffset<T, 4>::Set accepted (it did not throw)
\* is stored whole: Get() returns the argument of Set afterwards, for the
\* 24-bit field and for the 16-bit one.
C30_StoredWhole ==
    compact_offset.pc = "read" => compact_offset.got = compact_offset.x

=============================================================================
